---- MODULE Spec2Model ----
(***************************************************************************)
(* State-machine model of the C++ client core of valkey-glide:             *)
(*   - the response channel  Future<T> / IFuture   (future.h, future.cc)   *)
(*   - the error mapping     ConvertRequestError   (helper.cc)             *)
(*   - the connection handle Client                (client.h, client.cc)   *)
(*   - the completion callbacks on_success / on_failure (callback.cc)      *)
(* The engine (create_client, close_client, command and the free calls)    *)
(* is the environment; its calls are recorded in counters.                 *)
(***************************************************************************)
EXTENDS Integers, Sequences, FiniteSets, TLC

(***************************************************************************)
(* Bounds.                                                                 *)
(***************************************************************************)
NumThreads == 2
NumClients == 2
MaxConn == 2
MaxSetCalls == 1
MaxSpurious == 1
MaxChan == 2
MaxCompletions == 2
MaxErrorKind == 5
MaxMsgLen == 2
MaxFields == 2
MaxNodes == 2
MaxMutations == 2
MaxSerialize == 2
MaxNullCalls == 1

\* Each caller thread of the two-command program (benchmark.cc, run_test)
\* holds one temporary Future per command; a slot stands for its address.
CmdsPerThread == 2
Futures == 1..(CmdsPerThread * NumThreads)
Clients == 1..NumClients
ConnResps == 1..MaxConn
\* One wire response per completed command.
RespIds == Futures
Threads == 1..NumThreads

(***************************************************************************)
(* Values.                                                                 *)
(***************************************************************************)
\* An absl::Status / absl::StatusOr<T> value held in Future<T>::result_.
MkStatus(code, msg) ==
    [code |-> code, msg |-> msg, hasValue |-> FALSE, sval |-> <<>>, bval |-> FALSE]

OkStatus == MkStatus("Ok", <<>>)

StringValue(s) ==
    [code |-> "Ok", msg |-> <<>>, hasValue |-> TRUE, sval |-> s, bval |-> FALSE]

BoolValue(b) ==
    [code |-> "Ok", msg |-> <<>>, hasValue |-> TRUE, sval |-> <<>>, bval |-> b]

\* The instantiations of Future<T> that set_value accepts.
FutureTypes == {"Status", "StatusOrString", "StatusOrBool"}

\* T result_ is default-constructed by Future's inherited constructor:
\* absl::Status() is OK, absl::StatusOr<T>() holds an Unknown error.
DefaultResult(T) ==
    IF T = "Status" THEN OkStatus ELSE MkStatus("Unknown", <<>>)

\* core::RequestErrorType; 4 stands for any value outside the enumeration.
Unspecified == 0
ExecAbort == 1
Timeout == 2
Disconnect == 3
ErrorKinds == 0..4

\* const char* -> std::string: the bytes before the first zero byte.
RECURSIVE CStr(_)
CStr(buf) ==
    IF buf = <<>> \/ Head(buf) = 0 THEN <<>>
    ELSE <<Head(buf)>> \o CStr(Tail(buf))

\* Engine-owned message buffers (zero-terminated C strings).
MessageBufs == { <<0>>, <<2, 1, 0>> }

\* The (error kind, message) pairs the failure path is exercised with.
ErrInputs ==
    { <<Unspecified, <<0>>>>, <<ExecAbort, <<2, 1, 0>>>>, <<Timeout, <<2, 1, 0>>>>,
      <<Timeout, <<0>>>>, <<Disconnect, <<2, 1, 0>>>>, <<4, <<2, 1, 0>>>> }

\* The engine's errors used for failed commands.
EngineErrs == { <<Timeout, <<2, 1, 0>>>> }

ConvertRequestError_AllUnknown(type, message) == MkStatus("Unknown", message)

ConvertRequestError_TimeoutAsUnknown(type, message) ==
    CASE type = ExecAbort  -> MkStatus("Aborted", message)
      [] type = Disconnect -> MkStatus("Unavailable", message)
      [] OTHER             -> MkStatus("Unknown", message)

ConvertRequestError(type, message) ==
    CASE type = ExecAbort  -> MkStatus("Aborted", message)
      [] type = Timeout    -> MkStatus("DeadlineExceeded", message)
      [] type = Disconnect -> MkStatus("Unavailable", message)
      [] OTHER             -> MkStatus("Unknown", message)

\* A core::CommandResponse: string_value points at buf, of which
\* string_value_len bytes are the value; bool_value for Bool responses.
MkResp(type, buf, len, b) == [type |-> type, buf |-> buf, len |-> len, bval |-> b]

NoResp == MkResp("None", <<>>, 0, FALSE)

RespInputs ==
    { MkResp("Ok", <<>>, 0, FALSE),
      MkResp("String", <<1, 0, 2>>, 3, FALSE),
      MkResp("String", <<2, 1, 1>>, 1, FALSE),
      MkResp("Bool", <<>>, 0, TRUE) }

\* std::string(resp->string_value, resp->string_value_len)
StdString(buf, len) == SubSeq(buf, 1, len)

\* The value Future<T>::set_value(const CommandResponse*) stores.
DecodeResp_Truncating(T, r) ==
    CASE T = "Status"         -> OkStatus
      [] T = "StatusOrString" -> StringValue(CStr(r.buf))
      [] OTHER                -> BoolValue(r.bval)

DecodeResp(T, r) ==
    CASE T = "Status"         -> OkStatus
      [] T = "StatusOrString" -> StringValue(StdString(r.buf, r.len))
      [] OTHER                -> BoolValue(r.bval)

(***************************************************************************)
(* State.                                                                  *)
(***************************************************************************)
VARIABLES
    futT,        \* Future f: its instantiation T, or "none" before construction
    ready_,      \* IFuture::ready_
    result_,     \* Future<T>::result_
    mtx_,        \* holder of *IFuture::mtx_: 0 (free) or a thread
    cvWait,      \* threads blocked inside cv_->wait
    spc,         \* position of the set_value call running on future f
    sarg,        \* the argument of that call
    nset,        \* number of set_value calls started on future f
    resultOld,   \* result_ as it was before the running set_value stored into it
    becameReady, \* number of times ready_ went from false to true
    resp,        \* engine-allocated CommandResponses by id
    respFreed,   \* free_command_response calls per response
    pc,          \* position of caller thread t
    top,         \* the operation thread t runs: "get" or "wait"
    tfut,        \* the future thread t operates on
    ret,         \* what get() returned to thread t
    racy,        \* thread t read ready_ = true without the lock while a set_value was running
    late,        \* thread t started its call after set_value had returned
    blocked,     \* thread t has blocked inside cv_->wait during this call
    spur,        \* spurious wake-ups thread t has had
    cstate,      \* Client object c: "none", "alive" or "destroyed"
    connection_, \* Client::connection_: "uninit", or the ConnectionResponse it points to
    serializable,\* whether config_.serialize() of client c yields a buffer
    lastConnect, \* what the last connect() on c returned: "never", "true", "false"
    isCopy,      \* c was made by the copy constructor
    cresp,       \* ConnectionResponse r: "none", "live" or "freed"
    connOf,      \* r->conn_ptr: 0 (null) or the connection (named after r)
    createdBy,   \* the client whose connect() obtained r
    crFreed,     \* free_connection_response(r) calls
    closed,      \* close_client(r->conn_ptr) calls
    closeBeforeFree, \* close_client was called for r's connection before r was freed
    useAfterClose,   \* command or close_client got r's connection after it was closed
    usedConn,    \* command was called with r's connection
    nullCommand, \* command was called with a null conn_ptr
    uninitRead,  \* client c read connection_ before anything was stored in it
    wildCalls,   \* close_client/free_connection_response calls with a pointer that is no object
    dtorCalls,   \* engine calls made by the destructor of c
    inflight,    \* correlation tokens of the commands the engine has not completed
    cmd,         \* the command submitted with token f
    store,       \* the server's key space
    delivered,   \* the completion the engine delivered with token f
    clobbered,   \* the object at address f was written through a pointer of another type
    prog,        \* number of commands thread t has issued
    first,       \* what the first command's get() returned to thread t
    hstore,      \* the server's hashes: per key a set of (field, value) pairs
    token,       \* the address submitted as the token of command f: f itself, or Wild
    staleWrite,  \* a completion callback wrote through a token that addresses no live Future
    script,      \* the command sequence the session runs
    outs,        \* what the get() of each command of the session returned, in order
    chState,     \* CommandResponseData object ch: "none", "alive" or "destroyed"
    value,       \* CommandResponseData::value: a response id, 0 (null) or indeterminate
    error_message, \* CommandResponseData::error_message
    error_type,  \* CommandResponseData::error_type
    is_error,    \* CommandResponseData::is_error
    is_ready,    \* CommandResponseData::is_ready
    chLog,       \* the completions delivered to ch, in order
    wildFree,    \* free_command_response was called with a pointer that is no response
    cmdRet,      \* what Command::get on channel ch returned to its caller
    expired,     \* the time bound of thread t's wait_for/wait_until has passed
    wpred,       \* ready_ as the bounded wait of thread t last evaluated it before returning
    wret,        \* what the bounded wait returned to thread t: "none" while it has not returned
    cvIn,        \* the arguments (type, message) given to ConvertRequestError
    cvOut,       \* the absl::Status it returned
    argIn,       \* the arguments (key, value, field, map) given to the Client's command methods
    submitted,   \* per command method, the call of core::command it made
    cfgState,    \* the Config object: "none" or "built"
    cluster_nodes_,   \* Config::cluster_nodes_
    credential_,      \* Config::credential_
    tls_mode_,        \* Config::tls_mode_
    database_,        \* Config::database_
    request_timeout_, \* Config::request_timeout_
    client_name_,     \* Config::client_name_, a std::optional
    read_from_,       \* Config::read_from_
    setVia,      \* per field, the argument of the last mutator call that set it, if any
    timeoutLog,  \* per withRequestTimeout call, the duration given and the value stored
    nmut,        \* number of mutator calls made
    serialized,  \* what the serialize() calls since the last mutator call returned
    pbShutdown,  \* ShutdownProtobufLibrary() has been called in this process
    lastMut,     \* the last mutator called on the Config and the object its reference names
    config_,     \* Client::config_: the Config the Client constructor made from its argument
    original,    \* the argument of that constructor as it was when it ran, and its bytes
    sent,        \* what config_.serialize() returned in Client::connect
    cmtx,        \* holder of CommandResponseData::mtx_ of ch: 0 (free) or a thread
    ccv,         \* threads blocked inside cv_.wait of ch
    cpc,         \* position of thread t in CommandResponseData::wait()
    cwch,        \* the channel thread t called wait() on
    cwret,       \* what wait() returned to thread t
    cspur,       \* spurious wake-ups thread t had in cv_.wait
    msgPtr,      \* the engine's message buffer error_message of ch points to: 0 for none
    msgDropped,  \* the engine's message buffers 1..msgDropped have been freed
    nullCalls    \* completion callbacks invoked with the token 0

futVars == <<futT, ready_, result_, mtx_, cvWait, spc, sarg, nset, resultOld, becameReady,
             resp, respFreed>>
thrVars == <<pc, top, tfut, ret, racy, late, blocked, spur>>
cliVars == <<cstate, connection_, serializable, lastConnect, isCopy, cresp, connOf,
             createdBy, crFreed, closed, closeBeforeFree, useAfterClose, usedConn,
             nullCommand, uninitRead, wildCalls, dtorCalls>>
cmdVars == <<inflight, cmd, store, delivered, clobbered, prog, first, hstore, token,
             staleWrite, script, outs>>
chanVars == <<chState, value, error_message, error_type, is_error, is_ready, chLog,
              wildFree, cmdRet>>
waitVars == <<expired, wpred, wret>>
cfgVars == <<cfgState, cluster_nodes_, credential_, tls_mode_, database_, request_timeout_,
             client_name_, read_from_, setVia, timeoutLog, nmut, serialized, pbShutdown,
             lastMut>>
cliCfgVars == <<config_, original, sent>>
crdVars == <<cmtx, ccv, cpc, cwch, cwret, cspur>>
msgVars == <<msgPtr, msgDropped>>
cbVars == <<nullCalls>>
extVars == <<cliCfgVars, crdVars, msgVars, cbVars>>
pureVars == <<cvIn, cvOut, argIn, submitted, cfgVars, extVars>>
otherVars == <<chanVars, waitVars, pureVars>>
envVars == <<cliVars, cmdVars, otherVars>>
vars == <<futVars, thrVars, cliVars, cmdVars, otherVars>>

NoArg == [isErr |-> FALSE, rid |-> 0, kind |-> 0, msg |-> <<0>>]

\* IFuture::IFuture and the default-initialised result_, for every slot.
InitFutures ==
    /\ ready_ = [f \in Futures |-> FALSE]
    /\ result_ = [f \in Futures |-> OkStatus]
    /\ mtx_ = [f \in Futures |-> 0]
    /\ cvWait = [f \in Futures |-> {}]
    /\ spc = [f \in Futures |-> "idle"]
    /\ sarg = [f \in Futures |-> NoArg]
    /\ nset = [f \in Futures |-> 0]
    /\ resultOld = [f \in Futures |-> OkStatus]
    /\ becameReady = [f \in Futures |-> 0]
    /\ resp = [r \in RespIds |-> NoResp]
    /\ respFreed = [r \in RespIds |-> 0]

InitThreads ==
    /\ pc = [t \in Threads |-> "idle"]
    /\ top = [t \in Threads |-> "get"]
    /\ tfut = [t \in Threads |-> 1]
    /\ ret = [t \in Threads |-> OkStatus]
    /\ racy = [t \in Threads |-> FALSE]
    /\ late = [t \in Threads |-> FALSE]
    /\ blocked = [t \in Threads |-> FALSE]
    /\ spur = [t \in Threads |-> 0]

\* Pointer values of Client::connection_ and of conn_ptr other than the
\* ConnectionResponses themselves: the null pointer, the indeterminate value
\* of the never-initialised member, and an address that holds no object.
Null == 0
Uninit == 0 - 1
Wild == 0 - 2

InitClients ==
    /\ cstate = [c \in Clients |-> "none"]
    /\ connection_ = [c \in Clients |-> Uninit]
    /\ serializable = [c \in Clients |-> TRUE]
    /\ lastConnect = [c \in Clients |-> "never"]
    /\ isCopy = [c \in Clients |-> FALSE]
    /\ cresp = [r \in ConnResps |-> "none"]
    /\ connOf = [r \in ConnResps |-> Null]
    /\ createdBy = [r \in ConnResps |-> 0]
    /\ crFreed = [r \in ConnResps |-> 0]
    /\ closed = [r \in ConnResps |-> 0]
    /\ closeBeforeFree = [r \in ConnResps |-> FALSE]
    /\ useAfterClose = [r \in ConnResps |-> FALSE]
    /\ usedConn = [r \in ConnResps |-> FALSE]
    /\ nullCommand = FALSE
    /\ uninitRead = [c \in Clients |-> FALSE]
    /\ wildCalls = FALSE
    /\ dtorCalls = [c \in Clients |-> 0]

NoCmd == [type |-> "None", args |-> <<>>]
NoCompletion == [kind |-> "none", rid |-> 0, errKind |-> 0, msg |-> <<0>>]
Keys == Threads
Absent == <<0 - 1>>

InitCmd ==
    /\ inflight = {}
    /\ cmd = [f \in Futures |-> NoCmd]
    /\ store = [k \in Keys |-> Absent]
    /\ delivered = [f \in Futures |-> NoCompletion]
    /\ clobbered = [f \in Futures |-> FALSE]
    /\ prog = [t \in Threads |-> 0]
    /\ first = [t \in Threads |-> OkStatus]
    /\ hstore = [k \in Keys |-> {}]
    /\ token = [f \in Futures |-> Null]
    /\ staleWrite = FALSE
    /\ script = "none"
    /\ outs = <<>>

Chans == 1..MaxChan

NoRet == [done |-> FALSE, val |-> <<>>]

\* No CommandResponseData object exists yet.
InitChannels ==
    /\ chState = [ch \in Chans |-> "none"]
    /\ value = [ch \in Chans |-> Uninit]
    /\ error_message = [ch \in Chans |-> <<Uninit>>]
    /\ error_type = [ch \in Chans |-> Uninit]
    /\ is_error = [ch \in Chans |-> FALSE]
    /\ is_ready = [ch \in Chans |-> FALSE]
    /\ chLog = [ch \in Chans |-> <<>>]
    /\ wildFree = FALSE
    /\ cmdRet = [ch \in Chans |-> NoRet]

\* No bounded wait has been called.
InitWaits ==
    /\ expired = [t \in Threads |-> FALSE]
    /\ wpred = [t \in Threads |-> FALSE]
    /\ wret = [t \in Threads |-> "none"]

NoStatus == MkStatus("None", <<>>)

\* The command methods of Client.
Methods == {"set", "set_b", "hset", "hset_b", "get", "getdel", "hget"}

NoCall == [type |-> "None", arg_count |-> 0, args |-> <<>>, args_len |-> <<>>]

\* config.h: DEFAULT_PORT, and the default member initialisers of Config.
DEFAULT_PORT == 6379
DEFAULT_REQUEST_TIMEOUT == 1000

NoMut == [name |-> "none", returns |-> "none"]
NoConfig == [built |-> FALSE]

NoneSet == [tls_mode |-> <<>>, database |-> <<>>, credential |-> <<>>,
            request_timeout |-> <<>>, client_name |-> <<>>, read_from |-> <<>>]

\* No Config constructed yet; the members hold what their default
\* initialisers give every constructor.
InitConfig ==
    /\ cfgState = "none"
    /\ cluster_nodes_ = <<>>
    /\ credential_ = [username |-> <<>>, password |-> <<>>]
    /\ tls_mode_ = "NoTLS"
    /\ database_ = 0
    /\ request_timeout_ = DEFAULT_REQUEST_TIMEOUT
    /\ client_name_ = [has |-> FALSE, val |-> <<>>]
    /\ read_from_ = "Primary"
    /\ setVia = NoneSet
    /\ timeoutLog = {}
    /\ nmut = 0
    /\ serialized = <<>>
    /\ pbShutdown = FALSE
    /\ lastMut = NoMut

\* No Client has been constructed from the Config yet.
InitClientConfig ==
    /\ config_ = NoConfig
    /\ original = <<>>
    /\ sent = <<>>

\* No thread has called CommandResponseData::wait(), and the engine has
\* produced no error message.
InitCrdWait ==
    /\ cmtx = [ch \in Chans |-> 0]
    /\ ccv = [ch \in Chans |-> {}]
    /\ cpc = [t \in Threads |-> "idle"]
    /\ cwch = [t \in Threads |-> 1]
    /\ cwret = [t \in Threads |-> Uninit]
    /\ cspur = [t \in Threads |-> 0]
    /\ msgPtr = [ch \in Chans |-> Null]
    /\ msgDropped = 0
    /\ nullCalls = 0

InitExt == InitClientConfig /\ InitCrdWait

\* The arguments the scenarios above do not vary.
InitPure ==
    /\ cvIn = [type |-> Unspecified, msg |-> <<>>]
    /\ cvOut = NoStatus
    /\ argIn = [key |-> <<>>, value |-> <<>>, field |-> <<>>, map |-> <<>>]
    /\ submitted = [m \in Methods |-> NoCall]
    /\ InitConfig
    /\ InitExt

InitOther == InitChannels /\ InitWaits /\ InitPure

(***************************************************************************)
(* Future<T>: construction and fulfilment (future.h, future.cc).           *)
(***************************************************************************)
\* Future<T> future;  -- IFuture::IFuture() and the default result_.
Future_ctor(f, T) ==
    /\ futT[f] = "none"
    /\ futT' = [futT EXCEPT ![f] = T]
    /\ ready_' = [ready_ EXCEPT ![f] = FALSE]
    /\ result_' = [result_ EXCEPT ![f] = DefaultResult(T)]
    /\ resultOld' = [resultOld EXCEPT ![f] = DefaultResult(T)]
    /\ UNCHANGED <<mtx_, cvWait, spc, sarg, nset, becameReady, resp, respFreed>>
    /\ UNCHANGED <<thrVars, envVars>>

\* The lowest unused response id (the engine allocates the response).
FreshResp == CHOOSE r \in RespIds : resp[r] = NoResp /\ \A q \in RespIds : q < r => resp[q] # NoResp

CanCallSetValue(f) ==
    /\ futT[f] # "none"
    /\ spc[f] \in {"idle", "returned"}
    /\ nset[f] < MaxSetCalls

\* MethodAccess::set_value(IFuture*, const CommandResponse*) ->
\* Future<T>::set_value(resp) up to its call of ready():
\*   result_ = <decoded resp>;  core::free_command_response(resp);
Future_set_value_resp(f, r) ==
    /\ CanCallSetValue(f)
    /\ \E q \in RespIds : resp[q] = NoResp
    /\ resp' = [resp EXCEPT ![FreshResp] = r]
    /\ sarg' = [sarg EXCEPT ![f] = [isErr |-> FALSE, rid |-> FreshResp, kind |-> 0, msg |-> <<0>>]]
    /\ resultOld' = [resultOld EXCEPT ![f] = result_[f]]
    /\ result_' = [result_ EXCEPT ![f] = DecodeResp(futT[f], r)]
    /\ respFreed' = [respFreed EXCEPT ![FreshResp] = @ + 1]
    /\ nset' = [nset EXCEPT ![f] = @ + 1]
    /\ spc' = [spc EXCEPT ![f] = "ready"]
    /\ UNCHANGED <<futT, ready_, mtx_, cvWait, becameReady>>
    /\ UNCHANGED <<thrVars, envVars>>

\* MethodAccess::set_value(IFuture*, RequestErrorType, const char*) ->
\* Future<T>::set_value(type, message): result_ = ConvertRequestError(type, message).
Future_set_value_err(f, type, message) ==
    /\ CanCallSetValue(f)
    /\ sarg' = [sarg EXCEPT ![f] = [isErr |-> TRUE, rid |-> 0, kind |-> type, msg |-> message]]
    /\ resultOld' = [resultOld EXCEPT ![f] = result_[f]]
    /\ result_' = [result_ EXCEPT ![f] = ConvertRequestError(type, CStr(message))]
    /\ nset' = [nset EXCEPT ![f] = @ + 1]
    /\ spc' = [spc EXCEPT ![f] = "ready"]
    /\ UNCHANGED <<futT, ready_, mtx_, cvWait, becameReady, resp, respFreed>>
    /\ UNCHANGED <<thrVars, envVars>>

\* One mutex for every Future of the process.
MutexOf_Global(f) == 1

\* The mutex *mtx_ of Future f: IFuture::IFuture() allocates one for each
\* Future, mtx_(std::make_unique<std::mutex>()).
MutexOf(f) == f

\* The value ready() writes into ready_.
ReadyFlag_Never(f) == ready_[f]

ReadyFlag(f) == TRUE

\* IFuture::ready(), the block { unique_lock lock(*mtx_); ready_ = true; }.
IFuture_ready(f) ==
    /\ spc[f] = "ready"
    /\ mtx_[MutexOf(f)] = 0
    /\ ready_' = [ready_ EXCEPT ![f] = ReadyFlag(f)]
    /\ becameReady' = [becameReady EXCEPT ![f] = IF ~ready_[f] /\ ReadyFlag(f) THEN @ + 1 ELSE @]
    /\ spc' = [spc EXCEPT ![f] = "notify"]
    /\ UNCHANGED <<futT, result_, mtx_, cvWait, sarg, nset, resultOld, resp, respFreed>>
    /\ UNCHANGED <<thrVars, envVars>>

\* The threads cv_->notify_all() wakes.
Notified_None(f) == {}

Notified(f) == cvWait[f]

\* IFuture::ready(), cv_->notify_all(); then set_value returns.
IFuture_ready_notify(f) ==
    /\ spc[f] = "notify"
    /\ cvWait' = [cvWait EXCEPT ![f] = @ \ Notified(f)]
    /\ pc' = [t \in Threads |-> IF t \in Notified(f) THEN "wait_lock" ELSE pc[t]]
    /\ spc' = [spc EXCEPT ![f] = "returned"]
    /\ UNCHANGED <<futT, ready_, result_, mtx_, sarg, nset, resultOld, becameReady, resp, respFreed>>
    /\ UNCHANGED <<top, tfut, ret, racy, late, blocked, spur>>
    /\ UNCHANGED envVars

(***************************************************************************)
(* Caller threads: Future<T>::get() and IFuture::wait().                   *)
(***************************************************************************)
SetterRunning(f) == spc[f] \notin {"idle", "returned"}

\* A caller thread enters get() or wait() on future f.
Call(t, f, op) ==
    /\ pc[t] = "idle"
    /\ futT[f] # "none"
    /\ pc' = [pc EXCEPT ![t] = IF op = "get" THEN "get_check" ELSE "wait_lock"]
    /\ top' = [top EXCEPT ![t] = op]
    /\ tfut' = [tfut EXCEPT ![t] = f]
    /\ late' = [late EXCEPT ![t] = (spc[f] = "returned")]
    /\ UNCHANGED <<ret, racy, blocked, spur>>
    /\ UNCHANGED <<futVars, envVars>>

\* Future<T>::get(): if (!ready_) wait();  -- ready_ is read without the lock.
Future_get_check(t) ==
    /\ pc[t] = "get_check"
    /\ IF ready_[tfut[t]]
       THEN /\ pc' = [pc EXCEPT ![t] = "get_ret"]
            /\ racy' = [racy EXCEPT ![t] = SetterRunning(tfut[t])]
       ELSE /\ pc' = [pc EXCEPT ![t] = "wait_lock"]
            /\ UNCHANGED racy
    /\ UNCHANGED <<top, tfut, ret, late, blocked, spur>>
    /\ UNCHANGED <<futVars, envVars>>

\* IFuture::wait(): std::unique_lock<std::mutex> lock(*mtx_), also the
\* re-acquisition of the mutex when cv_->wait wakes up.
IFuture_wait_lock(t) ==
    /\ pc[t] = "wait_lock"
    /\ mtx_[MutexOf(tfut[t])] = 0
    /\ mtx_' = [mtx_ EXCEPT ![MutexOf(tfut[t])] = t]
    /\ pc' = [pc EXCEPT ![t] = "wait_pred"]
    /\ UNCHANGED <<futT, ready_, result_, cvWait, spc, sarg, nset, resultOld, becameReady, resp, respFreed>>
    /\ UNCHANGED <<top, tfut, ret, racy, late, blocked, spur>>
    /\ UNCHANGED envVars

\* What a caller of wait_for / wait_until receives: both are declared void
\* and drop the bool that cv_->wait_for / cv_->wait_until returns.
WaitForReturn(fulfilled) == "void"

\* IFuture::wait(): cv_->wait(lock, [this] { return ready_; }) evaluates the
\* predicate under the mutex; it returns (releasing the lock) when ready_
\* holds, else it atomically releases the mutex and blocks.  wait_for and
\* wait_until do the same with cv_->wait_for / cv_->wait_until, which also
\* return, with the value of the predicate, once the time bound has passed.
IFuture_wait_pred(t) ==
    /\ pc[t] = "wait_pred"
    /\ mtx_[MutexOf(tfut[t])] = t
    /\ mtx_' = [mtx_ EXCEPT ![MutexOf(tfut[t])] = 0]
    /\ IF ready_[tfut[t]] \/ expired[t]
       THEN /\ pc' = [pc EXCEPT ![t] = IF top[t] = "get" THEN "get_ret" ELSE "done"]
            /\ IF top[t] = "wait_for"
               THEN /\ wpred' = [wpred EXCEPT ![t] = ready_[tfut[t]]]
                    /\ wret' = [wret EXCEPT ![t] = WaitForReturn(ready_[tfut[t]])]
               ELSE UNCHANGED <<wpred, wret>>
            /\ UNCHANGED <<cvWait, blocked>>
       ELSE /\ pc' = [pc EXCEPT ![t] = "cv_wait"]
            /\ cvWait' = [cvWait EXCEPT ![tfut[t]] = @ \cup {t}]
            /\ blocked' = [blocked EXCEPT ![t] = TRUE]
            /\ UNCHANGED <<wpred, wret>>
    /\ UNCHANGED <<futT, ready_, result_, spc, sarg, nset, resultOld, becameReady, resp, respFreed>>
    /\ UNCHANGED <<top, tfut, ret, racy, late, spur>>
    /\ UNCHANGED <<cliVars, cmdVars, chanVars, pureVars, expired>>

\* std::condition_variable::wait may wake up without a notification.
SpuriousWakeup(t) ==
    /\ pc[t] = "cv_wait"
    /\ spur[t] < MaxSpurious
    /\ spur' = [spur EXCEPT ![t] = @ + 1]
    /\ cvWait' = [cvWait EXCEPT ![tfut[t]] = @ \ {t}]
    /\ pc' = [pc EXCEPT ![t] = "wait_lock"]
    /\ UNCHANGED <<futT, ready_, result_, mtx_, spc, sarg, nset, resultOld, becameReady, resp, respFreed>>
    /\ UNCHANGED <<top, tfut, ret, racy, late, blocked>>
    /\ UNCHANGED envVars

\* The time bound of the wait_for / wait_until thread t is blocked in passes:
\* cv_->wait_for stops blocking and re-acquires the mutex.
TimeExpires(t) ==
    /\ pc[t] = "cv_wait"
    /\ top[t] = "wait_for"
    /\ expired' = [expired EXCEPT ![t] = TRUE]
    /\ cvWait' = [cvWait EXCEPT ![tfut[t]] = @ \ {t}]
    /\ pc' = [pc EXCEPT ![t] = "wait_lock"]
    /\ UNCHANGED <<futT, ready_, result_, mtx_, spc, sarg, nset, resultOld, becameReady, resp, respFreed>>
    /\ UNCHANGED <<top, tfut, ret, racy, late, blocked, spur>>
    /\ UNCHANGED <<cliVars, cmdVars, chanVars, pureVars, wpred, wret>>

\* A caller whose bounded wait has returned calls get() on the same Future.
GetAfterWait(t) ==
    /\ pc[t] = "done"
    /\ top[t] = "wait_for"
    /\ pc' = [pc EXCEPT ![t] = "get_check"]
    /\ top' = [top EXCEPT ![t] = "get"]
    /\ late' = [late EXCEPT ![t] = (spc[tfut[t]] = "returned")]
    /\ blocked' = [blocked EXCEPT ![t] = FALSE]
    /\ expired' = [expired EXCEPT ![t] = FALSE]
    /\ UNCHANGED <<tfut, ret, racy, spur>>
    /\ UNCHANGED futVars
    /\ UNCHANGED <<cliVars, cmdVars, chanVars, pureVars, wpred, wret>>

\* What the read of result_ in "return result_" can yield: after an
\* unsynchronised read of ready_ that raced with set_value, the store into
\* result_ need not be visible yet.
ResultRead(t) ==
    IF racy[t] THEN {result_[tfut[t]], resultOld[tfut[t]]} ELSE {result_[tfut[t]]}

ResultAfterGet_MovedOut(f) == DefaultResult(futT[f])

\* result_ after "return result_": the member is copied, not moved from.
ResultAfterGet(f) == result_[f]

\* Future<T>::get(): return result_;
Future_get_return(t) ==
    /\ pc[t] = "get_ret"
    /\ \E v \in ResultRead(t) : ret' = [ret EXCEPT ![t] = v]
    /\ result_' = [result_ EXCEPT ![tfut[t]] = ResultAfterGet(tfut[t])]
    /\ pc' = [pc EXCEPT ![t] = "done"]
    /\ UNCHANGED <<top, tfut, racy, late, blocked, spur>>
    /\ UNCHANGED <<futT, ready_, mtx_, cvWait, spc, sarg, nset, resultOld, becameReady,
                   resp, respFreed>>
    /\ UNCHANGED envVars

SetterStep(f) ==
    \/ IFuture_ready(f)
    \/ IFuture_ready_notify(f)

WaiterStep(t) ==
    \/ Future_get_check(t)
    \/ IFuture_wait_lock(t)
    \/ IFuture_wait_pred(t)
    \/ Future_get_return(t)

(***************************************************************************)
(* SpecFuture: one Future<T> driven directly through                       *)
(* MethodAccess::set_value while caller threads run get() and wait() on it.*)
(***************************************************************************)
InitFuture ==
    /\ futT = [f \in Futures |-> "none"]
    /\ InitFutures
    /\ InitThreads
    /\ InitClients
    /\ InitCmd
    /\ InitOther

NextFuture ==
    \/ \E T \in FutureTypes : Future_ctor(1, T)
    \/ \E r \in RespInputs : Future_set_value_resp(1, r)
    \/ \E e \in ErrInputs : Future_set_value_err(1, e[1], e[2])
    \/ IFuture_ready(1)
    \/ IFuture_ready_notify(1)
    \/ \E t \in Threads, op \in {"get", "wait"} : Call(t, 1, op)
    \/ \E t \in Threads : Future_get_check(t)
    \/ \E t \in Threads : IFuture_wait_lock(t)
    \/ \E t \in Threads : IFuture_wait_pred(t)
    \/ \E t \in Threads : SpuriousWakeup(t)
    \/ \E t \in Threads : Future_get_return(t)

SpecFuture == InitFuture /\ [][NextFuture]_vars

\* The engine thread inside set_value and every caller thread inside
\* get()/wait() keep running; nothing forces a call to start or a spurious
\* wake-up to happen.
FairSpecFuture ==
    /\ SpecFuture
    /\ \A f \in Futures : WF_vars(SetterStep(f))
    /\ \A t \in Threads : WF_vars(WaiterStep(t))

(***************************************************************************)
(* SpecWait: caller threads run the bounded waits wait_for / wait_until on *)
(* one Future<StatusOr<std::string>>, then get(), while the engine thread  *)
(* fulfils it.                                                             *)
(***************************************************************************)
WaitResp == MkResp("String", <<1, 0, 2>>, 3, FALSE)

NextWait ==
    \/ Future_ctor(1, "StatusOrString")
    \/ Future_set_value_resp(1, WaitResp)
    \/ \E e \in EngineErrs : Future_set_value_err(1, e[1], e[2])
    \/ IFuture_ready(1)
    \/ IFuture_ready_notify(1)
    \/ \E t \in Threads : Call(t, 1, "wait_for")
    \/ \E t \in Threads : IFuture_wait_lock(t)
    \/ \E t \in Threads : IFuture_wait_pred(t)
    \/ \E t \in Threads : SpuriousWakeup(t)
    \/ \E t \in Threads : TimeExpires(t)
    \/ \E t \in Threads : GetAfterWait(t)
    \/ \E t \in Threads : Future_get_check(t)
    \/ \E t \in Threads : Future_get_return(t)

InitWaitSpec ==
    /\ futT = [f \in Futures |-> "none"]
    /\ InitFutures
    /\ InitThreads
    /\ InitClients
    /\ InitCmd
    /\ InitOther

SpecWait == InitWaitSpec /\ [][NextWait]_vars

(***************************************************************************)
(* Client: the connection handle (client.h, client.cc).                    *)
(***************************************************************************)
\* What a read of the member connection_ yields.  The constructor
\* Client(const Config&) initialises config_ only, so until connect() stores
\* into it the member is indeterminate: null, an address holding no object,
\* or the address of a ConnectionResponse left over in that memory.
ConnectionReads(c) ==
    IF connection_[c] = Uninit
    THEN {Null, Wild} \cup {r \in ConnResps : cresp[r] # "none"}
    ELSE {connection_[c]}

\* What a read of v->conn_ptr yields; a read through a freed
\* ConnectionResponse may still see the old pointer.
ConnPtrReads(v) ==
    IF v = Wild THEN {Null, Wild}
    ELSE IF cresp[v] = "freed" THEN {connOf[v], Null}
    ELSE {connOf[v]}

\* explicit Client(const Config &config) : config_(config) {}
Client_ctor(c, ser) ==
    /\ cstate[c] = "none"
    /\ \A d \in Clients : d < c => cstate[d] # "none"
    /\ cstate' = [cstate EXCEPT ![c] = "alive"]
    /\ serializable' = [serializable EXCEPT ![c] = ser]
    /\ UNCHANGED <<connection_, lastConnect, isCopy, cresp, connOf, createdBy, crFreed,
                   closed, closeBeforeFree, useAfterClose, usedConn, nullCommand,
                   uninitRead, wildCalls, dtorCalls>>
    /\ UNCHANGED <<futVars, thrVars, cmdVars, otherVars>>

\* The implicitly defined copy constructor Client(const Client&): copies
\* config_ and the pointer connection_.
Client_copy(src, dst) ==
    /\ cstate[src] = "alive"
    /\ cstate[dst] = "none"
    /\ \A d \in Clients : d < dst => cstate[d] # "none"
    /\ cstate' = [cstate EXCEPT ![dst] = "alive"]
    /\ serializable' = [serializable EXCEPT ![dst] = serializable[src]]
    /\ connection_' = [connection_ EXCEPT ![dst] = connection_[src]]
    /\ isCopy' = [isCopy EXCEPT ![dst] = TRUE]
    /\ UNCHANGED <<lastConnect, cresp, connOf, createdBy, crFreed,
                   closed, closeBeforeFree, useAfterClose, usedConn, nullCommand,
                   uninitRead, wildCalls, dtorCalls>>
    /\ UNCHANGED <<futVars, thrVars, cmdVars, otherVars>>

FreshConn == CHOOSE r \in ConnResps : cresp[r] = "none" /\ \A q \in ConnResps : q < r => cresp[q] # "none"

ConnectResult_AlwaysTrue(p) == "true"

\* The value connect() returns: connection_->conn_ptr != nullptr.
ConnectResult(p) == IF p # Null THEN "true" ELSE "false"

\* bool Client::connect(): serialize; on failure return false; else
\* connection_ = core::create_client(...); return connection_->conn_ptr != nullptr.
\* ok is the engine's outcome: a connection, or a connection error.
Client_connect(c, ok) ==
    /\ cstate[c] = "alive"
    /\ IF ~serializable[c]
       THEN /\ ~ok
            /\ lastConnect' = [lastConnect EXCEPT ![c] = "false"]
            /\ UNCHANGED <<connection_, cresp, connOf, createdBy>>
       ELSE /\ \E q \in ConnResps : cresp[q] = "none"
            /\ cresp' = [cresp EXCEPT ![FreshConn] = "live"]
            /\ connOf' = [connOf EXCEPT ![FreshConn] = IF ok THEN FreshConn ELSE Null]
            /\ createdBy' = [createdBy EXCEPT ![FreshConn] = c]
            /\ connection_' = [connection_ EXCEPT ![c] = FreshConn]
            /\ lastConnect' = [lastConnect EXCEPT ![c] = ConnectResult(connOf'[FreshConn])]
    /\ UNCHANGED <<cstate, serializable, isCopy, crFreed, closed, closeBeforeFree,
                   useAfterClose, usedConn, nullCommand, uninitRead, wildCalls, dtorCalls>>
    /\ UNCHANGED <<futVars, thrVars, cmdVars, otherVars>>

\* core::command(connection_->conn_ptr, ...) as the engine sees it, where v is
\* what connection_ read as and p what v->conn_ptr read as.  Reading through
\* a null connection_ faults before the engine is reached.
CoreCommand(c, v, p) ==
    /\ uninitRead' = [uninitRead EXCEPT ![c] = @ \/ connection_[c] = Uninit]
    /\ IF v = Null
       THEN UNCHANGED <<nullCommand, wildCalls, usedConn, useAfterClose>>
       ELSE IF p = Null
       THEN /\ nullCommand' = TRUE
            /\ UNCHANGED <<wildCalls, usedConn, useAfterClose>>
       ELSE IF p = Wild
       THEN /\ wildCalls' = TRUE
            /\ UNCHANGED <<nullCommand, usedConn, useAfterClose>>
       ELSE /\ usedConn' = [usedConn EXCEPT ![p] = TRUE]
            /\ useAfterClose' = [useAfterClose EXCEPT ![p] = @ \/ closed[p] > 0]
            /\ UNCHANGED <<nullCommand, wildCalls>>

\* Client::exec_command / exec_command_b: the call of core::command.
Client_exec_command(c) ==
    /\ cstate[c] = "alive"
    /\ \E v \in ConnectionReads(c) :
          \E p \in (IF v = Null THEN {Null} ELSE ConnPtrReads(v)) : CoreCommand(c, v, p)
    /\ UNCHANGED <<cstate, connection_, serializable, lastConnect, isCopy, cresp, connOf,
                   createdBy, crFreed, closed, closeBeforeFree, dtorCalls>>
    /\ UNCHANGED <<futVars, thrVars, cmdVars, otherVars>>

\* Client::~Client():
\*   if (connection_ && connection_->conn_ptr) {
\*     core::close_client(connection_->conn_ptr);
\*     core::free_connection_response(connection_); }
Client_dtor(c) ==
    /\ cstate[c] = "alive"
    /\ cstate' = [cstate EXCEPT ![c] = "destroyed"]
    /\ uninitRead' = [uninitRead EXCEPT ![c] = @ \/ connection_[c] = Uninit]
    /\ \E v \in ConnectionReads(c) :
          \E p \in (IF v = Null THEN {Null} ELSE ConnPtrReads(v)) :
             IF v = Null \/ p = Null
             THEN UNCHANGED <<cresp, crFreed, closed, closeBeforeFree, useAfterClose,
                              wildCalls, dtorCalls>>
             ELSE IF p = Wild
             THEN /\ wildCalls' = TRUE
                  /\ dtorCalls' = [dtorCalls EXCEPT ![c] = @ + 2]
                  /\ UNCHANGED <<cresp, crFreed, closed, closeBeforeFree, useAfterClose>>
             ELSE /\ closed' = [closed EXCEPT ![p] = @ + 1]
                  /\ useAfterClose' = [useAfterClose EXCEPT ![p] = @ \/ closed[p] > 0]
                  /\ closeBeforeFree' = [closeBeforeFree EXCEPT ![v] = @ \/ crFreed[v] = 0]
                  /\ crFreed' = [crFreed EXCEPT ![v] = @ + 1]
                  /\ cresp' = [cresp EXCEPT ![v] = "freed"]
                  /\ dtorCalls' = [dtorCalls EXCEPT ![c] = @ + 2]
                  /\ UNCHANGED wildCalls
    /\ UNCHANGED <<connection_, serializable, lastConnect, isCopy, connOf, createdBy,
                   usedConn, nullCommand>>
    /\ UNCHANGED <<futVars, thrVars, cmdVars, otherVars>>

(***************************************************************************)
(* SpecClient: construction, copy, connect, command submission and         *)
(* destruction of Client objects against the engine.                       *)
(***************************************************************************)
InitClient ==
    /\ futT = [f \in Futures |-> "none"]
    /\ InitFutures
    /\ InitThreads
    /\ InitClients
    /\ InitCmd
    /\ InitOther

NextClient ==
    \/ \E c \in Clients, ser \in BOOLEAN : Client_ctor(c, ser)
    \/ \E src, dst \in Clients : Client_copy(src, dst)
    \/ \E c \in Clients, ok \in BOOLEAN : Client_connect(c, ok)
    \/ \E c \in Clients : Client_exec_command(c)
    \/ \E c \in Clients : Client_dtor(c)

SpecClient == InitClient /\ [][NextClient]_vars

(***************************************************************************)
(* Command execution path: Client::set / Client::get, the engine, and the  *)
(* completion callbacks (client.h, client.cc, callback.cc).                *)
(***************************************************************************)
\* The address of the Future of thread t's n-th command.
Slot(t, n) == CmdsPerThread * (t - 1) + n

\* The distinct key and the value (with an embedded zero byte) of thread t.
Key(t) == <<t>>
Val(t) == <<t, 0, t>>

\* exec_command: for every argument the pair (arg.data(), arg.size()).
ExecArgs(args) == [i \in 1..Len(args) |-> [bytes |-> args[i], len |-> Len(args[i])]]

\* The bytes the engine reads for argument i of a command.
ArgBytes(c, i) == SubSeq(c.args[i].bytes, 1, c.args[i].len)

\* A result_ whose bytes were overwritten by a write meant for another type.
Garbage == MkStatus("Garbage", <<>>)

\* The caller frame the Future at address f is a local or temporary of: the
\* slots of one caller lie next to each other on its stack.
FrameOf(f) == (f + CmdsPerThread - 1) \div CmdsPerThread

\* The live Futures that lie directly behind the Future at ptr in the same
\* frame.  CommandResponseData holds its std::mutex and
\* std::condition_variable by value behind value, error_message, error_type,
\* is_error and is_ready; a Future<T> holds a vtable pointer, two
\* unique_ptr, ready_ and result_, and is the smaller object: for
\* T = absl::Status it ends before CommandResponseData's mtx_ does, and cv_
\* lies wholly behind it.
Neighbours(ptr) ==
    {g \in Futures : g = ptr + 1 /\ FrameOf(g) = FrameOf(ptr) /\ futT[g] \in FutureTypes}

\* CommandResponseData::set_value / set_error applied to the address ptr.
\* on_success and on_failure cast the token to CommandResponseData*, but the
\* tokens Client submits are addresses of Future<T> objects, which are not
\* CommandResponseData: the member writes (value, error_message, error_type,
\* is_error, is_ready) and the use of mtx_ and cv_ land on whatever bytes of
\* the Future lie at CommandResponseData's offsets.  Future<T>::set_value is
\* not run: result_ never receives the decoded response, the response is not
\* released, and the threads waiting on the Future's own cv_ are not
\* notified.  What the overwritten Future then holds is indeterminate.
\* lock_guard(mtx_) and cv_.notify_one() read and write the bytes at the
\* offsets of mtx_ and cv_, which reach past the end of the Future into the
\* object behind it; whether that object is changed is indeterminate too.
CommandResponseData_write(ptr) ==
    \E over \in {{}, Neighbours(ptr)} :
        /\ clobbered' = [f \in Futures |-> clobbered[f] \/ f = ptr \/ f \in over]
        /\ \E rdy \in {ready_[ptr], TRUE} :
              /\ ready_' = [ready_ EXCEPT ![ptr] = rdy]
              /\ becameReady' = [becameReady EXCEPT ![ptr] = IF ~ready_[ptr] /\ rdy THEN @ + 1 ELSE @]
        /\ \E res \in {result_[ptr], Garbage} :
              result_' = [f \in Futures |->
                             IF f = ptr THEN res
                             ELSE IF f \in over THEN Garbage ELSE result_[f]]

\* The same write through a token that addresses no Future any more: the
\* local of Client::set / get that was moved from and destroyed on return.
\* It lands on dead stack; the Future the caller holds is not touched.
DeadStackWrite ==
    /\ staleWrite' = TRUE
    /\ UNCHANGED <<clobbered, ready_, becameReady, result_>>

\* void on_success(uintptr_t ptr, const CommandResponse* message):
\*   db = reinterpret_cast<CommandResponseData*>(ptr); if (db) db->set_value(message);
on_success(ptr, message) ==
    IF ptr = Null
    THEN UNCHANGED <<clobbered, ready_, becameReady, result_, staleWrite>>
    ELSE IF ptr = Wild
    THEN DeadStackWrite
    ELSE CommandResponseData_write(ptr) /\ UNCHANGED staleWrite

\* void on_failure(uintptr_t ptr, const char* message, RequestErrorType type):
\*   db = reinterpret_cast<CommandResponseData*>(ptr); if (db) db->set_error(type, message);
on_failure(ptr, message, type) ==
    IF ptr = Null
    THEN UNCHANGED <<clobbered, ready_, becameReady, result_, staleWrite>>
    ELSE IF ptr = Wild
    THEN DeadStackWrite
    ELSE CommandResponseData_write(ptr) /\ UNCHANGED staleWrite

\* The wire response the server produces for command c.
ServerReply(c) ==
    IF c.type = "Set" THEN MkResp("Ok", <<>>, 0, FALSE)
    ELSE IF c.type = "HSet" THEN MkResp("Int", <<>>, 0, FALSE)
    ELSE IF c.type = "HGet"
    THEN LET h == {p \in hstore[ArgBytes(c, 1)[1]] : p[1] = ArgBytes(c, 2)}
         IN IF h = {} THEN MkResp("Null", <<>>, 0, FALSE)
            ELSE LET v == (CHOOSE p \in h : TRUE)[2]
                 IN MkResp("String", v, Len(v), FALSE)
    ELSE LET v == store[ArgBytes(c, 1)[1]]
         IN IF v = Absent THEN MkResp("Null", <<>>, 0, FALSE)
            ELSE MkResp("String", v, Len(v), FALSE)

\* The server's key space after it executed command c: SET stores the value,
\* GETDEL removes the key, GET and the hash commands leave it.
StoreAfter(c) ==
    IF c.type = "Set" THEN [store EXCEPT ![ArgBytes(c, 1)[1]] = ArgBytes(c, 2)]
    ELSE IF c.type = "GetDel" THEN [store EXCEPT ![ArgBytes(c, 1)[1]] = Absent]
    ELSE store

\* The (field, value) pairs argument 2.. of an HSET carry.
HSetPairs(c) == {<<ArgBytes(c, 2 * i), ArgBytes(c, 2 * i + 1)>> : i \in 1..((Len(c.args) - 1) \div 2)}

\* The server's hashes after it executed command c: HSET stores every given
\* field, replacing the fields it names.
HStoreAfter(c) ==
    IF c.type = "HSet"
    THEN [hstore EXCEPT ![ArgBytes(c, 1)[1]] =
              {p \in @ : \A q \in HSetPairs(c) : q[1] # p[1]} \cup HSetPairs(c)]
    ELSE hstore

\* The engine completes the command with token f successfully and calls the
\* success callback registered at create_client.
Engine_success(f) ==
    /\ f \in inflight
    /\ inflight' = inflight \ {f}
    /\ store' = StoreAfter(cmd[f])
    /\ hstore' = HStoreAfter(cmd[f])
    /\ resp' = [resp EXCEPT ![f] = ServerReply(cmd[f])]
    /\ delivered' = [delivered EXCEPT ![f] = [kind |-> "success", rid |-> f, errKind |-> 0, msg |-> <<0>>]]
    /\ on_success(token[f], f)
    /\ UNCHANGED <<futT, mtx_, cvWait, spc, sarg, nset, resultOld, respFreed>>
    /\ UNCHANGED <<cmd, prog, first, token, script, outs>>
    /\ UNCHANGED <<thrVars, cliVars, otherVars>>

\* The engine fails the command with token f and calls the failure callback.
Engine_failure(f, type, message) ==
    /\ f \in inflight
    /\ inflight' = inflight \ {f}
    /\ delivered' = [delivered EXCEPT ![f] = [kind |-> "failure", rid |-> 0, errKind |-> type, msg |-> message]]
    /\ on_failure(token[f], message, type)
    /\ UNCHANGED <<futT, mtx_, cvWait, spc, sarg, nset, resultOld, resp, respFreed>>
    /\ UNCHANGED <<cmd, store, prog, first, hstore, token, script, outs>>
    /\ UNCHANGED <<thrVars, cliVars, otherVars>>

\* The client the caller threads share.
Connected(c) == cstate[c] = "alive" /\ lastConnect[c] = "true"

\* Thread t evaluates c.set(key, value).get() up to the entry of get():
\* Client::set constructs the Future, hands its address to exec_command as
\* the token and returns it.
Client_set(t) ==
    /\ pc[t] = "idle" /\ prog[t] = 0
    /\ Connected(1)
    /\ futT[Slot(t, 1)] = "none"
    /\ futT' = [futT EXCEPT ![Slot(t, 1)] = "Status"]
    /\ ready_' = [ready_ EXCEPT ![Slot(t, 1)] = FALSE]
    /\ result_' = [result_ EXCEPT ![Slot(t, 1)] = DefaultResult("Status")]
    /\ resultOld' = [resultOld EXCEPT ![Slot(t, 1)] = DefaultResult("Status")]
    /\ cmd' = [cmd EXCEPT ![Slot(t, 1)] = [type |-> "Set", args |-> ExecArgs(<<Key(t), Val(t)>>)]]
    /\ token' = [token EXCEPT ![Slot(t, 1)] = Slot(t, 1)]
    /\ CoreCommand(1, connection_[1], connOf[connection_[1]])
    /\ inflight' = inflight \cup {Slot(t, 1)}
    /\ prog' = [prog EXCEPT ![t] = 1]
    /\ pc' = [pc EXCEPT ![t] = "get_check"]
    /\ tfut' = [tfut EXCEPT ![t] = Slot(t, 1)]
    /\ top' = [top EXCEPT ![t] = "get"]
    /\ late' = [late EXCEPT ![t] = FALSE]
    /\ UNCHANGED <<mtx_, cvWait, spc, sarg, nset, becameReady, resp, respFreed>>
    /\ UNCHANGED <<ret, racy, blocked, spur>>
    /\ UNCHANGED <<cstate, connection_, serializable, lastConnect, isCopy, cresp, connOf,
                   createdBy, crFreed, closed, closeBeforeFree, dtorCalls>>
    /\ UNCHANGED <<store, delivered, clobbered, first, hstore, staleWrite, script, outs>>
    /\ UNCHANGED otherVars

\* Thread t, after get() of its set returned: the temporary Future is
\* destroyed, then c.get<std::string>(key).get() up to the entry of get().
Client_get(t) ==
    /\ pc[t] = "done" /\ prog[t] = 1
    /\ Connected(1)
    /\ first' = [first EXCEPT ![t] = ret[t]]
    /\ futT' = [futT EXCEPT ![Slot(t, 1)] = "destroyed", ![Slot(t, 2)] = "StatusOrString"]
    /\ ready_' = [ready_ EXCEPT ![Slot(t, 2)] = FALSE]
    /\ result_' = [result_ EXCEPT ![Slot(t, 2)] = DefaultResult("StatusOrString")]
    /\ resultOld' = [resultOld EXCEPT ![Slot(t, 2)] = DefaultResult("StatusOrString")]
    /\ cmd' = [cmd EXCEPT ![Slot(t, 2)] = [type |-> "Get", args |-> ExecArgs(<<Key(t)>>)]]
    /\ token' = [token EXCEPT ![Slot(t, 2)] = Slot(t, 2)]
    /\ CoreCommand(1, connection_[1], connOf[connection_[1]])
    /\ inflight' = inflight \cup {Slot(t, 2)}
    /\ prog' = [prog EXCEPT ![t] = 2]
    /\ pc' = [pc EXCEPT ![t] = "get_check"]
    /\ tfut' = [tfut EXCEPT ![t] = Slot(t, 2)]
    /\ top' = [top EXCEPT ![t] = "get"]
    /\ late' = [late EXCEPT ![t] = FALSE]
    /\ blocked' = [blocked EXCEPT ![t] = FALSE]
    /\ racy' = [racy EXCEPT ![t] = FALSE]
    /\ UNCHANGED <<mtx_, cvWait, spc, sarg, nset, becameReady, resp, respFreed>>
    /\ UNCHANGED <<ret, spur>>
    /\ UNCHANGED <<cstate, connection_, serializable, lastConnect, isCopy, cresp, connOf,
                   createdBy, crFreed, closed, closeBeforeFree, dtorCalls>>
    /\ UNCHANGED <<store, delivered, clobbered, hstore, staleWrite, script, outs>>
    /\ UNCHANGED otherVars

\* Thread t, after get() of its get returned: the temporary Future is
\* destroyed and the thread ends.
Thread_finish(t) ==
    /\ pc[t] = "done" /\ prog[t] = CmdsPerThread
    /\ futT' = [futT EXCEPT ![Slot(t, 2)] = "destroyed"]
    /\ pc' = [pc EXCEPT ![t] = "finished"]
    /\ UNCHANGED <<ready_, result_, mtx_, cvWait, spc, sarg, nset, resultOld, becameReady,
                   resp, respFreed>>
    /\ UNCHANGED <<top, tfut, ret, racy, late, blocked, spur>>
    /\ UNCHANGED envVars

(***************************************************************************)
(* SpecCmd: caller threads sharing one Client run set(k, v).get() followed *)
(* by get(k).get(); the engine completes the commands in any order.        *)
(***************************************************************************)
InitCmdSpec ==
    /\ futT = [f \in Futures |-> "none"]
    /\ InitFutures
    /\ InitThreads
    /\ InitClients
    /\ InitCmd
    /\ InitOther

ThreadStep(t) ==
    \/ Client_set(t)
    \/ Client_get(t)
    \/ Thread_finish(t)
    \/ WaiterStep(t)

EngineStep(f) ==
    \/ Engine_success(f)
    \/ \E e \in EngineErrs : Engine_failure(f, e[1], e[2])

\* run_test connects the client before it starts the caller threads.
NotStarted == \A t \in Threads : prog[t] = 0

NextCmd ==
    \/ Client_ctor(1, TRUE)
    \/ \E ok \in BOOLEAN : NotStarted /\ Client_connect(1, ok)
    \/ \E t \in Threads : Client_set(t)
    \/ \E t \in Threads : Client_get(t)
    \/ \E t \in Threads : Thread_finish(t)
    \/ \E f \in Futures : Engine_success(f)
    \/ \E f \in Futures, e \in EngineErrs : Engine_failure(f, e[1], e[2])
    \/ \E t \in Threads : Future_get_check(t)
    \/ \E t \in Threads : IFuture_wait_lock(t)
    \/ \E t \in Threads : IFuture_wait_pred(t)
    \/ \E t \in Threads : SpuriousWakeup(t)
    \/ \E t \in Threads : Future_get_return(t)

SpecCmd == InitCmdSpec /\ [][NextCmd]_vars

\* The engine invokes exactly one completion callback for every submitted
\* command, the caller threads keep running, and the caller connects.
FairSpecCmd ==
    /\ SpecCmd
    /\ WF_vars(Client_ctor(1, TRUE))
    /\ WF_vars(\E ok \in BOOLEAN : NotStarted /\ Client_connect(1, ok))
    /\ \A f \in Futures : WF_vars(EngineStep(f))
    /\ \A t \in Threads : WF_vars(ThreadStep(t))

(***************************************************************************)
(* CommandResponseData: the channel of the Command API (callback.h,        *)
(* callback.cc, command.cc).                                               *)
(***************************************************************************)
\* The wire responses the engine delivers to a CommandResponseData: a string
\* value, and the Null response of an absent key.
ChanResps ==
    { MkResp("String", <<1, 0, 2>>, 3, FALSE),
      MkResp("Null", <<>>, 0, FALSE) }

MkCompletion(kind, rid, type, message) ==
    [kind |-> kind, rid |-> rid, errKind |-> type, msg |-> message]

\* CommandResponseData::CommandResponseData() = default: is_error and is_ready
\* have initialisers; value, error_message and error_type have none.
CRD_ctor(ch) ==
    /\ chState[ch] = "none"
    /\ \A d \in Chans : d < ch => chState[d] # "none"
    /\ chState' = [chState EXCEPT ![ch] = "alive"]
    /\ value' = [value EXCEPT ![ch] = Uninit]
    /\ error_message' = [error_message EXCEPT ![ch] = <<Uninit>>]
    /\ error_type' = [error_type EXCEPT ![ch] = Uninit]
    /\ is_error' = [is_error EXCEPT ![ch] = FALSE]
    /\ is_ready' = [is_ready EXCEPT ![ch] = FALSE]
    /\ UNCHANGED <<chLog, wildFree, cmdRet>>
    /\ UNCHANGED <<waitVars, pureVars>>
    /\ UNCHANGED <<futVars, thrVars, cliVars, cmdVars>>

\* The threads cv_.notify_one() wakes: one of those blocked in cv_.wait, if
\* there is any.
NotifyOne(ch) == IF ccv[ch] = {} THEN {{}} ELSE {{t} : t \in ccv[ch]}

\* cv_.notify_one() at the end of set_value / set_error: the woken thread
\* leaves cv_.wait and has to re-acquire mtx_.
CRD_notify_one(ch) ==
    \E w \in NotifyOne(ch) :
        /\ ccv' = [ccv EXCEPT ![ch] = @ \ w]
        /\ cpc' = [t \in Threads |-> IF t \in w THEN "lock" ELSE cpc[t]]
        /\ UNCHANGED <<cmtx, cwch, cwret, cspur>>

\* on_success(ptr, message) with ptr the address of a CommandResponseData:
\* CommandResponseData::set_value: lock; value = new_value; is_ready = true;
\* notify_one.  The engine allocated the response r.
CRD_set_value(ch, r) ==
    /\ chState[ch] = "alive"
    /\ cmtx[ch] = 0
    /\ Len(chLog[ch]) < MaxCompletions
    /\ \E q \in RespIds : resp[q] = NoResp
    /\ resp' = [resp EXCEPT ![FreshResp] = r]
    /\ value' = [value EXCEPT ![ch] = FreshResp]
    /\ is_ready' = [is_ready EXCEPT ![ch] = TRUE]
    /\ chLog' = [chLog EXCEPT ![ch] = Append(@, MkCompletion("success", FreshResp, 0, <<0>>))]
    /\ CRD_notify_one(ch)
    /\ UNCHANGED <<chState, error_message, error_type, is_error, wildFree, cmdRet>>
    /\ UNCHANGED <<waitVars, cvIn, cvOut, argIn, submitted, cfgVars, cliCfgVars, msgVars, cbVars>>
    /\ UNCHANGED <<futT, ready_, result_, mtx_, cvWait, spc, sarg, nset, resultOld,
                   becameReady, respFreed>>
    /\ UNCHANGED <<thrVars, cliVars, cmdVars>>

\* on_failure(ptr, message, type) with ptr the address of a
\* CommandResponseData: CommandResponseData::set_error: lock; error_type =
\* type; error_message = message; is_error = true; is_ready = true; notify_one.
\* message is a const char* into a buffer of the engine, the next one it
\* allocated; the member takes the pointer, not the characters.  The engine
\* frees the buffer when on_failure returns (lib.h, FailureCallback).
CRD_set_error(ch, type, message) ==
    /\ chState[ch] = "alive"
    /\ cmtx[ch] = 0
    /\ Len(chLog[ch]) < MaxCompletions
    /\ msgPtr' = [msgPtr EXCEPT ![ch] = msgDropped + 1]
    /\ msgDropped' = msgDropped + 1
    /\ CRD_notify_one(ch)
    /\ error_type' = [error_type EXCEPT ![ch] = type]
    /\ error_message' = [error_message EXCEPT ![ch] = message]
    /\ is_error' = [is_error EXCEPT ![ch] = TRUE]
    /\ is_ready' = [is_ready EXCEPT ![ch] = TRUE]
    /\ chLog' = [chLog EXCEPT ![ch] = Append(@, MkCompletion("failure", 0, type, message))]
    /\ UNCHANGED <<chState, value, wildFree, cmdRet>>
    /\ UNCHANGED <<waitVars, cvIn, cvOut, argIn, submitted, cfgVars, cliCfgVars, cbVars>>
    /\ UNCHANGED <<futVars, thrVars, cliVars, cmdVars>>

\* The copy constructor and the move constructor: both run *this = other,
\* the copy assignment, which copies value, error_message, error_type,
\* is_error and is_ready.
CRD_copy(src, dst) ==
    /\ chState[src] = "alive"
    /\ chState[dst] = "none"
    /\ \A d \in Chans : d < dst => chState[d] # "none"
    /\ chState' = [chState EXCEPT ![dst] = "alive"]
    /\ value' = [value EXCEPT ![dst] = value[src]]
    /\ error_message' = [error_message EXCEPT ![dst] = error_message[src]]
    /\ error_type' = [error_type EXCEPT ![dst] = error_type[src]]
    /\ is_error' = [is_error EXCEPT ![dst] = is_error[src]]
    /\ is_ready' = [is_ready EXCEPT ![dst] = is_ready[src]]
    /\ chLog' = [chLog EXCEPT ![dst] = chLog[src]]
    /\ msgPtr' = [msgPtr EXCEPT ![dst] = msgPtr[src]]
    /\ UNCHANGED <<wildFree, cmdRet, msgDropped>>
    /\ UNCHANGED <<waitVars, cvIn, cvOut, argIn, submitted, cfgVars, cliCfgVars, crdVars, cbVars>>
    /\ UNCHANGED <<futVars, thrVars, cliVars, cmdVars>>

\* What a read of the member value yields: without an initialiser it is
\* indeterminate until set_value stores into it.
ValueReads(ch) ==
    IF value[ch] = Uninit
    THEN {Null, Wild} \cup {r \in RespIds : resp[r] # NoResp}
    ELSE {value[ch]}

\* CommandResponseData::~CommandResponseData():
\*   if (value) free_command_response(value);   with value read as v.
CRD_release(ch, v) ==
    /\ chState' = [chState EXCEPT ![ch] = "destroyed"]
    /\ IF v = Null
       THEN UNCHANGED <<respFreed, wildFree>>
       ELSE IF v = Wild
       THEN wildFree' = TRUE /\ UNCHANGED respFreed
       ELSE respFreed' = [respFreed EXCEPT ![v] = @ + 1] /\ UNCHANGED wildFree

CRD_dtor(ch) ==
    /\ chState[ch] = "alive"
    /\ \E v \in ValueReads(ch) : CRD_release(ch, v)
    /\ UNCHANGED <<value, error_message, error_type, is_error, is_ready, chLog, cmdRet>>
    /\ UNCHANGED <<waitVars, pureVars>>
    /\ UNCHANGED <<futT, ready_, result_, mtx_, cvWait, spc, sarg, nset, resultOld,
                   becameReady, resp>>
    /\ UNCHANGED <<thrVars, cliVars, cmdVars>>

\* What Command::get returns once channel.wait() has returned:
\*   if (channel.is_error) return "";
\*   return std::string(channel.value->string_value, channel.value->string_value_len);
CommandGetResult(isErr, r) == IF isErr THEN <<>> ELSE StdString(r.buf, r.len)

\* std::string Command::get from the return of channel.wait() (is_ready
\* holds) to the end of the function, where the local channel is destroyed.
Command_get_return(ch) ==
    /\ chState[ch] = "alive"
    /\ is_ready[ch]
    /\ ~cmdRet[ch].done
    /\ is_error[ch] \/ value[ch] \in RespIds
    /\ cmdRet' = [cmdRet EXCEPT ![ch] =
          [done |-> TRUE,
           val |-> CommandGetResult(is_error[ch],
                                    IF value[ch] \in RespIds THEN resp[value[ch]] ELSE NoResp)]]
    /\ \E v \in ValueReads(ch) : CRD_release(ch, v)
    /\ UNCHANGED <<value, error_message, error_type, is_error, is_ready, chLog>>
    /\ UNCHANGED <<waitVars, pureVars>>
    /\ UNCHANGED <<futT, ready_, result_, mtx_, cvWait, spc, sarg, nset, resultOld,
                   becameReady, resp>>
    /\ UNCHANGED <<thrVars, cliVars, cmdVars>>

(***************************************************************************)
(* SpecChannel: CommandResponseData objects constructed, copied, fulfilled *)
(* by the completion callbacks, read by Command::get and destroyed.        *)
(***************************************************************************)
NextChannel ==
    \/ \E ch \in Chans : CRD_ctor(ch)
    \/ \E ch \in Chans, r \in ChanResps : CRD_set_value(ch, r)
    \/ \E ch \in Chans, e \in EngineErrs : CRD_set_error(ch, e[1], e[2])
    \/ \E src, dst \in Chans : CRD_copy(src, dst)
    \/ \E ch \in Chans : CRD_dtor(ch)
    \/ \E ch \in Chans : Command_get_return(ch)

InitChannel ==
    /\ futT = [f \in Futures |-> "none"]
    /\ InitFutures
    /\ InitThreads
    /\ InitClients
    /\ InitCmd
    /\ InitOther

SpecChannel == InitChannel /\ [][NextChannel]_vars

(***************************************************************************)
(* SpecIndep: two commands in flight on one Client, each with its own      *)
(* Future<absl::StatusOr<std::string>>; each caller thread calls get() on  *)
(* the Future of its command while MethodAccess::set_value fulfils them    *)
(* and further commands are submitted.                                     *)
(***************************************************************************)
\* The Futures of the two commands.
IndepFutures == {1, 2}

\* The String response each of the two commands is answered with.
IndepResp == MkResp("String", <<1, 0, 2>>, 3, FALSE)

\* The Future a caller thread retrieves: the one of its own command.
FutureOf(t) == ((t - 1) % 2) + 1

\* The caller connects the Client before it submits the two commands.
NoneSubmitted == \A f \in IndepFutures : futT[f] = "none"

NextIndep ==
    \/ Client_ctor(1, TRUE)
    \/ \E ok \in BOOLEAN : NoneSubmitted /\ Client_connect(1, ok)
    \/ Client_exec_command(1)
    \/ \E f \in IndepFutures : Connected(1) /\ Future_ctor(f, "StatusOrString")
    \/ \E f \in IndepFutures : Future_set_value_resp(f, IndepResp)
    \/ \E f \in IndepFutures : IFuture_ready(f)
    \/ \E f \in IndepFutures : IFuture_ready_notify(f)
    \/ \E t \in Threads : Call(t, FutureOf(t), "get")
    \/ \E t \in Threads : Future_get_check(t)
    \/ \E t \in Threads : IFuture_wait_lock(t)
    \/ \E t \in Threads : IFuture_wait_pred(t)
    \/ \E t \in Threads : SpuriousWakeup(t)
    \/ \E t \in Threads : Future_get_return(t)

SpecIndep == InitFuture /\ [][NextIndep]_vars

(***************************************************************************)
(* SpecFrame: one caller keeps the Futures of two commands as locals,      *)
(*   auto f1 = c.set(k1, v);  auto f2 = c.set(k2, v);  f1.get(); f2.get(); *)
(* while the engine completes the commands in any order and invokes the    *)
(* completion callbacks, also with the token 0.                            *)
(***************************************************************************)
\* auto fn = c.set(key, value);  -- Client::set constructs the Future,
\* submits the command with its address as the token and returns it.
Frame_submit(n) ==
    /\ Connected(1)
    /\ pc[1] = "idle"
    /\ futT[Slot(1, n)] = "none"
    /\ \A k \in 1..(n - 1) : futT[Slot(1, k)] # "none"
    /\ futT' = [futT EXCEPT ![Slot(1, n)] = "Status"]
    /\ ready_' = [ready_ EXCEPT ![Slot(1, n)] = FALSE]
    /\ result_' = [result_ EXCEPT ![Slot(1, n)] = DefaultResult("Status")]
    /\ resultOld' = [resultOld EXCEPT ![Slot(1, n)] = DefaultResult("Status")]
    /\ cmd' = [cmd EXCEPT ![Slot(1, n)] = [type |-> "Set", args |-> ExecArgs(<<Key(n), Val(n)>>)]]
    /\ token' = [token EXCEPT ![Slot(1, n)] = Slot(1, n)]
    /\ CoreCommand(1, connection_[1], connOf[connection_[1]])
    /\ inflight' = inflight \cup {Slot(1, n)}
    /\ UNCHANGED <<mtx_, cvWait, spc, sarg, nset, becameReady, resp, respFreed>>
    /\ UNCHANGED thrVars
    /\ UNCHANGED <<cstate, connection_, serializable, lastConnect, isCopy, cresp, connOf,
                   createdBy, crFreed, closed, closeBeforeFree, dtorCalls>>
    /\ UNCHANGED <<store, delivered, clobbered, prog, first, hstore, staleWrite, script, outs>>
    /\ UNCHANGED otherVars

\* The success or the failure callback is invoked with index_ptr = 0:
\* `if (db)` skips the call of set_value / set_error.
Callback_null(success) ==
    /\ nullCalls < MaxNullCalls
    /\ nullCalls' = nullCalls + 1
    /\ IF success THEN on_success(Null, 0) ELSE on_failure(Null, <<0>>, Unspecified)
    /\ UNCHANGED <<futT, mtx_, cvWait, spc, sarg, nset, resultOld, resp, respFreed>>
    /\ UNCHANGED <<inflight, cmd, store, delivered, prog, first, hstore, token, script, outs>>
    /\ UNCHANGED <<thrVars, cliVars, chanVars, waitVars>>
    /\ UNCHANGED <<cvIn, cvOut, argIn, submitted, cfgVars, cliCfgVars, crdVars, msgVars>>

NextFrame ==
    \/ Client_ctor(1, TRUE)
    \/ \E ok \in BOOLEAN : NoneSubmitted /\ Client_connect(1, ok)
    \/ \E n \in 1..CmdsPerThread : Frame_submit(n)
    \/ \E f \in Futures : Engine_success(f)
    \/ \E f \in Futures, e \in EngineErrs : Engine_failure(f, e[1], e[2])
    \/ \E success \in BOOLEAN : Callback_null(success)
    \/ \E n \in 1..CmdsPerThread : inflight = {} /\ Call(1, Slot(1, n), "get")
    \/ Future_get_check(1)
    \/ IFuture_wait_lock(1)
    \/ IFuture_wait_pred(1)
    \/ SpuriousWakeup(1)
    \/ Future_get_return(1)

SpecFrame == InitCmdSpec /\ [][NextFrame]_vars

(***************************************************************************)
(* SpecChanWait: caller threads run CommandResponseData::wait() on one     *)
(* channel while the completion callbacks fulfil it (callback.cc).         *)
(***************************************************************************)
\* The rest of the model, which a step of wait() leaves alone.
WaitOnly ==
    /\ UNCHANGED <<futVars, thrVars, cliVars, cmdVars, chanVars, waitVars>>
    /\ UNCHANGED <<cvIn, cvOut, argIn, submitted, cfgVars, cliCfgVars, msgVars, cbVars>>

\* A caller thread enters wait() on channel ch.
CRD_wait_call(t, ch) ==
    /\ cpc[t] = "idle"
    /\ chState[ch] = "alive"
    /\ cpc' = [cpc EXCEPT ![t] = "lock"]
    /\ cwch' = [cwch EXCEPT ![t] = ch]
    /\ UNCHANGED <<cmtx, ccv, cwret, cspur>>
    /\ WaitOnly

\* std::unique_lock<std::mutex> lock(mtx_), also the re-acquisition of the
\* mutex when cv_.wait wakes up.
CRD_wait_lock(t) ==
    /\ cpc[t] = "lock"
    /\ cmtx[cwch[t]] = 0
    /\ cmtx' = [cmtx EXCEPT ![cwch[t]] = t]
    /\ cpc' = [cpc EXCEPT ![t] = "pred"]
    /\ UNCHANGED <<ccv, cwch, cwret, cspur>>
    /\ WaitOnly

\* cv_.wait(lock, [this] { return is_ready; }); return value;
\* With is_ready true the lock is released and the member value is returned,
\* read as v; else the thread releases the mutex and blocks.
CRD_wait_pred(t) ==
    /\ cpc[t] = "pred"
    /\ cmtx[cwch[t]] = t
    /\ cmtx' = [cmtx EXCEPT ![cwch[t]] = 0]
    /\ IF is_ready[cwch[t]]
       THEN /\ cpc' = [cpc EXCEPT ![t] = "done"]
            /\ \E v \in ValueReads(cwch[t]) : cwret' = [cwret EXCEPT ![t] = v]
            /\ UNCHANGED ccv
       ELSE /\ cpc' = [cpc EXCEPT ![t] = "blocked"]
            /\ ccv' = [ccv EXCEPT ![cwch[t]] = @ \cup {t}]
            /\ UNCHANGED cwret
    /\ UNCHANGED <<cwch, cspur>>
    /\ WaitOnly

\* std::condition_variable::wait may wake up without a notification.
CRD_wait_spurious(t) ==
    /\ cpc[t] = "blocked"
    /\ cspur[t] < MaxSpurious
    /\ cspur' = [cspur EXCEPT ![t] = @ + 1]
    /\ ccv' = [ccv EXCEPT ![cwch[t]] = @ \ {t}]
    /\ cpc' = [cpc EXCEPT ![t] = "lock"]
    /\ UNCHANGED <<cmtx, cwch, cwret>>
    /\ WaitOnly

\* No thread is inside wait() on channel ch.
NoWaiter(ch) == \A t \in Threads : cwch[t] = ch => cpc[t] \in {"idle", "done"}

CrdWaiterStep(t) ==
    \/ CRD_wait_lock(t)
    \/ CRD_wait_pred(t)

NextChanWait ==
    \/ CRD_ctor(1)
    \/ \E r \in ChanResps : CRD_set_value(1, r)
    \/ \E e \in EngineErrs : CRD_set_error(1, e[1], e[2])
    \/ \E t \in Threads : CRD_wait_call(t, 1)
    \/ \E t \in Threads : CRD_wait_lock(t)
    \/ \E t \in Threads : CRD_wait_pred(t)
    \/ \E t \in Threads : CRD_wait_spurious(t)
    \/ NoWaiter(1) /\ CRD_dtor(1)

SpecChanWait == InitChannel /\ [][NextChanWait]_vars

\* Every caller thread inside wait() keeps running; nothing forces a call,
\* a completion or a spurious wake-up to happen.
FairSpecChanWait ==
    /\ SpecChanWait
    /\ \A t \in Threads : WF_vars(CrdWaiterStep(t))

(***************************************************************************)
(* SpecConvert: ConvertRequestError applied to every error kind value and  *)
(* message (helper.cc).                                                    *)
(***************************************************************************)
\* The values a RequestErrorType argument can carry: the four enumerators
\* and values outside the enumeration.
ConvKinds == 0..MaxErrorKind

RECURSIVE SeqsUpTo(_, _)
SeqsUpTo(S, n) ==
    IF n = 0 THEN {<<>>}
    ELSE LET shorter == SeqsUpTo(S, n - 1)
         IN shorter \cup {Append(q, x) : q \in shorter, x \in S}

\* std::string messages, zero bytes included.
ConvMsgs == SeqsUpTo({0, 1, 2}, MaxMsgLen)

InitConvert ==
    /\ futT = [f \in Futures |-> "none"]
    /\ InitFutures
    /\ InitThreads
    /\ InitClients
    /\ InitCmd
    /\ InitChannels
    /\ InitWaits
    /\ cvIn \in [type : ConvKinds, msg : ConvMsgs]
    /\ cvOut = NoStatus
    /\ argIn = [key |-> <<>>, value |-> <<>>, field |-> <<>>, map |-> <<>>]
    /\ submitted = [m \in Methods |-> NoCall]
    /\ InitConfig
    /\ InitExt

Apply_ConvertRequestError ==
    /\ cvOut = NoStatus
    /\ cvOut' = ConvertRequestError(cvIn.type, cvIn.msg)
    /\ UNCHANGED <<cvIn, argIn, submitted, cfgVars, extVars>>
    /\ UNCHANGED <<futVars, thrVars, cliVars, cmdVars, chanVars, waitVars>>

NextConvert == Apply_ConvertRequestError

SpecConvert == InitConvert /\ [][NextConvert]_vars

(***************************************************************************)
(* SpecArgs: the core::command call each command method of Client makes    *)
(* for given arguments (client.h, client.cc).                              *)
(***************************************************************************)
\* core::command(conn_ptr, channel_ptr, type, arg_count, args, args_len,
\* nullptr, 0) as the engine receives it; args[i] is the buffer the i-th
\* pointer addresses.
core_command(type, arg_count, args, args_len) ==
    [type |-> type, arg_count |-> arg_count, args |-> args, args_len |-> args_len]

exec_command_CStrLen(type, args) ==
    core_command(type, Len(args), args, [i \in 1..Len(args) |-> Len(CStr(args[i]))])

\* Client::exec_command: per argument arg.data() and arg.size(); then
\* core::command(..., cmd_args.size(), cmd_args.data(), cmd_args_len.data(), ...).
exec_command(type, args) ==
    core_command(type, Len(args), args, [i \in 1..Len(args) |-> Len(args[i])])

\* Client::exec_command_b: core::command(..., args.size(), args.data(),
\* args_len.data(), ...).
exec_command_b(type, args, args_len) == core_command(type, Len(args), args, args_len)

\* std::string::compare: a < b.
RECURSIVE LexLessFrom(_, _, _)
LexLessFrom(a, b, i) ==
    IF i > Len(a) THEN i <= Len(b)
    ELSE IF i > Len(b) THEN FALSE
    ELSE IF a[i] # b[i] THEN a[i] < b[i]
    ELSE LexLessFrom(a, b, i + 1)

LexLess(a, b) == LexLessFrom(a, b, 1)

\* A std::map is a set of (field, value) pairs with distinct fields; its
\* iteration visits the pairs in ascending order of the field.
MapBegin(m) == CHOOSE p \in m : \A q \in m \ {p} : LexLess(p[1], q[1])

RECURSIVE MapIter(_)
MapIter(m) == IF m = {} THEN <<>> ELSE <<MapBegin(m)>> \o MapIter(m \ {MapBegin(m)})

\* for (const auto &pair : values) { push_back(pair.first); push_back(pair.second); }
RECURSIVE PushPairs(_, _)
PushPairs(args, it) ==
    IF it = <<>> THEN args
    ELSE PushPairs(args \o <<it[1][1], it[1][2]>>, Tail(it))

\* ... { args_len.push_back(pair.first.size()); args_len.push_back(pair.second.size()); }
RECURSIVE PushSizes(_, _)
PushSizes(lens, it) ==
    IF it = <<>> THEN lens
    ELSE PushSizes(lens \o <<Len(it[1][1]), Len(it[1][2])>>, Tail(it))

\* Client::set(const std::string&, const std::string&)
SetCall(key, val) == exec_command("Set", <<key, val>>)

SetBinaryCall_KeySizeTwice(key, val) ==
    exec_command_b("Set", <<key, val>>, <<Len(key), Len(key)>>)

\* Client::set(const std::string&, const std::vector<std::byte>&)
SetBinaryCall(key, val) == exec_command_b("Set", <<key, val>>, <<Len(key), Len(val)>>)

\* Client::hset(const std::string&, const std::map<std::string, std::string>&)
HSetCall(key, m) == exec_command("HSet", PushPairs(<<key>>, MapIter(m)))

\* Client::hset(const std::string&, const std::map<std::string, std::vector<std::byte>>&)
HSetBinaryCall(key, m) ==
    exec_command_b("HSet", PushPairs(<<key>>, MapIter(m)), PushSizes(<<Len(key)>>, MapIter(m)))

\* Client::get<T>, Client::getdel<T>, Client::hget<T>
GetCall(key) == exec_command("Get", <<key>>)

GetDelCall(key) == exec_command("GetDel", <<key>>)

HGetCall(key, field) == exec_command("HGet", <<key, field>>)

\* Keys, values and field names, among them the empty string and a string
\* with an embedded zero byte.
ArgStrings == { <<>>, <<1>>, <<2, 0, 1>> }

FieldNames == { <<1>>, <<1, 0>>, <<0, 2>> }

ArgMaps ==
    { m \in SUBSET (FieldNames \X ArgStrings) :
        /\ Cardinality(m) <= MaxFields
        /\ \A p, q \in m : p[1] = q[1] => p = q }

InitArgs ==
    /\ futT = [f \in Futures |-> "none"]
    /\ InitFutures
    /\ InitThreads
    /\ InitClients
    /\ InitCmd
    /\ InitChannels
    /\ InitWaits
    /\ cvIn = [type |-> Unspecified, msg |-> <<>>]
    /\ cvOut = NoStatus
    /\ argIn \in [key : ArgStrings, value : ArgStrings, field : FieldNames, map : ArgMaps]
    /\ submitted = [m \in Methods |-> NoCall]
    /\ InitConfig
    /\ InitExt

\* The method m is called and makes the call c of core::command.
Submits(m, c) ==
    /\ submitted[m] = NoCall
    /\ submitted' = [submitted EXCEPT ![m] = c]
    /\ UNCHANGED <<cvIn, cvOut, argIn, cfgVars, extVars>>
    /\ UNCHANGED <<futVars, thrVars, cliVars, cmdVars, chanVars, waitVars>>

Submit_set == Submits("set", SetCall(argIn.key, argIn.value))

Submit_set_b == Submits("set_b", SetBinaryCall(argIn.key, argIn.value))

Submit_hset == Submits("hset", HSetCall(argIn.key, argIn.map))

Submit_hset_b == Submits("hset_b", HSetBinaryCall(argIn.key, argIn.map))

Submit_get == Submits("get", GetCall(argIn.key))

Submit_getdel == Submits("getdel", GetDelCall(argIn.key))

Submit_hget == Submits("hget", HGetCall(argIn.key, argIn.field))

NextArgs ==
    \/ Submit_set
    \/ Submit_set_b
    \/ Submit_hset
    \/ Submit_hset_b
    \/ Submit_get
    \/ Submit_getdel
    \/ Submit_hget

SpecArgs == InitArgs /\ [][NextArgs]_vars

(***************************************************************************)
(* SpecSession: one caller runs a command sequence of the tests and the    *)
(* example on a connected Client, each command as c.method(...).get()      *)
(* (tests/client_test.cc GetDelTest, examples/main.cc).                    *)
(***************************************************************************)
\* The key, the value (with an embedded zero byte) and the hash the session
\* uses.
SessKey == <<1>>
SessVal == <<1, 0, 2>>
SessMap == { <<<<1>>, <<2, 0>>>>, <<<<1, 0>>, <<3>>>> }

\* The calls of core::command each scenario makes, in program order.
Scripts ==
    [getdel |-> <<SetCall(SessKey, SessVal), GetDelCall(SessKey), GetCall(SessKey)>>,
     hash   |-> <<HSetCall(SessKey, SessMap), HGetCall(SessKey, <<1>>),
                  HGetCall(SessKey, <<1, 0>>)>>]

ScriptNames == {"getdel", "hash"}

\* The instantiation of Future<T> the method returns: absl::Status for set
\* and hset, absl::StatusOr<std::string> for get, getdel and hget.
CallType(c) == IF c.type \in {"Set", "HSet"} THEN "Status" ELSE "StatusOrString"

\* The command as the engine holds it: per argument the buffer and length.
AsCmd(c) ==
    [type |-> c.type,
     args |-> [i \in 1..c.arg_count |-> [bytes |-> c.args[i], len |-> c.args_len[i]]]]

\* `Future<T> future; future_ptr = &future; ...; return future;`: what the
\* submitted token addresses once the method has returned.  When the copy
\* is elided the local is the object the caller receives, at address f;
\* elision of a named local is permitted, not required, and without it the
\* caller's object is move-constructed from the local, which is then
\* destroyed while the engine holds its address.
ReturnedFutureToken(f) == {f, Wild}

\* The caller evaluates the next c.method(...).get() of its script up to the
\* entry of get(): the temporary Future of the previous full expression is
\* destroyed, the method constructs the Future, submits the command with its
\* address as the token and returns the Future by value.
Session_call(t) ==
    /\ script \in ScriptNames
    /\ prog[t] < Len(Scripts[script])
    /\ pc[t] = (IF prog[t] = 0 THEN "idle" ELSE "done")
    /\ Connected(1)
    /\ LET n == prog[t] + 1
           c == Scripts[script][n]
       IN /\ futT[n] = "none"
          /\ futT' = [f \in Futures |->
                         IF f = n THEN CallType(c)
                         ELSE IF f = n - 1 THEN "destroyed" ELSE futT[f]]
          /\ outs' = IF n > 1 THEN Append(outs, ret[t]) ELSE outs
          /\ ready_' = [ready_ EXCEPT ![n] = FALSE]
          /\ result_' = [result_ EXCEPT ![n] = DefaultResult(CallType(c))]
          /\ resultOld' = [resultOld EXCEPT ![n] = DefaultResult(CallType(c))]
          /\ cmd' = [cmd EXCEPT ![n] = AsCmd(c)]
          /\ \E a \in ReturnedFutureToken(n) : token' = [token EXCEPT ![n] = a]
          /\ inflight' = inflight \cup {n}
          /\ tfut' = [tfut EXCEPT ![t] = n]
    /\ CoreCommand(1, connection_[1], connOf[connection_[1]])
    /\ prog' = [prog EXCEPT ![t] = @ + 1]
    /\ pc' = [pc EXCEPT ![t] = "get_check"]
    /\ top' = [top EXCEPT ![t] = "get"]
    /\ late' = [late EXCEPT ![t] = FALSE]
    /\ blocked' = [blocked EXCEPT ![t] = FALSE]
    /\ racy' = [racy EXCEPT ![t] = FALSE]
    /\ UNCHANGED <<mtx_, cvWait, spc, sarg, nset, becameReady, resp, respFreed>>
    /\ UNCHANGED <<ret, spur>>
    /\ UNCHANGED <<cstate, connection_, serializable, lastConnect, isCopy, cresp, connOf,
                   createdBy, crFreed, closed, closeBeforeFree, dtorCalls>>
    /\ UNCHANGED <<store, delivered, clobbered, first, hstore, staleWrite, script>>
    /\ UNCHANGED otherVars

\* After the get() of the last command returned: its temporary Future is
\* destroyed and the session ends.
Session_finish(t) ==
    /\ script \in ScriptNames
    /\ pc[t] = "done" /\ prog[t] = Len(Scripts[script])
    /\ futT' = [futT EXCEPT ![prog[t]] = "destroyed"]
    /\ outs' = Append(outs, ret[t])
    /\ pc' = [pc EXCEPT ![t] = "finished"]
    /\ UNCHANGED <<ready_, result_, mtx_, cvWait, spc, sarg, nset, resultOld, becameReady,
                   resp, respFreed>>
    /\ UNCHANGED <<top, tfut, ret, racy, late, blocked, spur>>
    /\ UNCHANGED <<inflight, cmd, store, delivered, clobbered, prog, first, hstore, token,
                   staleWrite, script>>
    /\ UNCHANGED <<cliVars, otherVars>>

InitSession ==
    /\ futT = [f \in Futures |-> "none"]
    /\ InitFutures
    /\ InitThreads
    /\ InitClients
    /\ inflight = {}
    /\ cmd = [f \in Futures |-> NoCmd]
    /\ store = [k \in Keys |-> Absent]
    /\ delivered = [f \in Futures |-> NoCompletion]
    /\ clobbered = [f \in Futures |-> FALSE]
    /\ prog = [t \in Threads |-> 0]
    /\ first = [t \in Threads |-> OkStatus]
    /\ hstore = [k \in Keys |-> {}]
    /\ token = [f \in Futures |-> Null]
    /\ staleWrite = FALSE
    /\ script \in ScriptNames
    /\ outs = <<>>
    /\ InitOther

NextSession ==
    \/ Client_ctor(1, TRUE)
    \/ \E ok \in BOOLEAN : NotStarted /\ Client_connect(1, ok)
    \/ Session_call(1)
    \/ Session_finish(1)
    \/ \E f \in Futures : Engine_success(f)
    \/ \E f \in Futures, e \in EngineErrs : Engine_failure(f, e[1], e[2])
    \/ Future_get_check(1)
    \/ IFuture_wait_lock(1)
    \/ IFuture_wait_pred(1)
    \/ SpuriousWakeup(1)
    \/ Future_get_return(1)

SpecSession == InitSession /\ [][NextSession]_vars

(***************************************************************************)
(* Config: constructors, mutators and serialize (config.h, config.cc).     *)
(***************************************************************************)
\* ClusterNode::ClusterNode(const std::string& host, const uint32_t port)
ClusterNode(host, port) == [host |-> host, port |-> port]

\* Credential::Credential(const std::string& username, const std::string& password)
Credential(username, password) == [username |-> username, password |-> password]

\* The hosts, node vectors and strings given to a Config.
CfgStrings == { <<>>, <<1>> }
CfgNodes == { ClusterNode(<<1>>, DEFAULT_PORT), ClusterNode(<<2>>, 1) }
CfgNodeVectors == SeqsUpTo(CfgNodes, MaxNodes)
Databases == {0, 1}
ReadFromValues == {"Primary", "PreferReplica", "LowestLatency", "AZAffinity"}

\* One second as std::chrono::seconds, milliseconds and nanoseconds: the
\* unit of the duration type and its count().
TimeoutInputs == { <<"s", 1>>, <<"ms", 1000>>, <<"ns", 1000000000>> }

\* The duration (unit, count) in nanoseconds.
DurationNs(unit, count) ==
    IF unit = "s" THEN count * 1000000000
    ELSE IF unit = "ms" THEN count * 1000000
    ELSE count

\* The part of a constructor or mutator that leaves the rest of the model.
ConfigOnly ==
    UNCHANGED <<futVars, thrVars, cliVars, cmdVars, chanVars, waitVars,
                cvIn, cvOut, argIn, submitted, extVars>>

\* Config::Config(const std::string& host, const uint32_t port)
Config_ctor_host(host, port) ==
    /\ cfgState = "none"
    /\ cfgState' = "built"
    /\ cluster_nodes_' = Append(cluster_nodes_, ClusterNode(host, port))
    /\ UNCHANGED <<credential_, tls_mode_, database_, request_timeout_, client_name_,
                   read_from_, setVia, timeoutLog, nmut, serialized, pbShutdown, lastMut>>
    /\ ConfigOnly

\* Config::Config(std::vector<ClusterNode>& cluster_nodes)
\*     : cluster_nodes_(cluster_nodes) {}
\* The vector is taken as it is, an empty one included.  (Config::Config()
\* cannot be selected by any call: a call without arguments is ambiguous
\* with the constructor above, whose two parameters have defaults.)
Config_ctor_nodes(nodes) ==
    /\ cfgState = "none"
    /\ cfgState' = "built"
    /\ cluster_nodes_' = nodes
    /\ UNCHANGED <<credential_, tls_mode_, database_, request_timeout_, client_name_,
                   read_from_, setVia, timeoutLog, nmut, serialized, pbShutdown, lastMut>>
    /\ ConfigOnly

\* The object a mutator is called on.
This == "config"

\* A mutator that rebuilt the object from its defaults would also empty
\* the node list.
Mutates_ClearsNodes(name) ==
    /\ cfgState = "built"
    /\ nmut < MaxMutations
    /\ nmut' = nmut + 1
    /\ serialized' = <<>>
    /\ lastMut' = [name |-> name, returns |-> This]
    /\ cluster_nodes_' = <<>>
    /\ UNCHANGED <<cfgState, pbShutdown>>
    /\ ConfigOnly

\* A call of the mutator `name` on the constructed Config; each of them
\* ends with `return *this;`.
Mutates(name) ==
    /\ cfgState = "built"
    /\ nmut < MaxMutations
    /\ nmut' = nmut + 1
    /\ serialized' = <<>>
    /\ lastMut' = [name |-> name, returns |-> This]
    /\ UNCHANGED <<cfgState, cluster_nodes_, pbShutdown>>
    /\ ConfigOnly

\* Config& Config::withInsecureTLSMode()
Config_withInsecureTLSMode ==
    /\ Mutates("tls_mode")
    /\ tls_mode_' = "InsecureTLS"
    /\ setVia' = [setVia EXCEPT !.tls_mode = <<"InsecureTLS">>]
    /\ UNCHANGED <<credential_, database_, request_timeout_, client_name_, read_from_,
                   timeoutLog>>

\* Config& Config::withSecureTLSMode()
Config_withSecureTLSMode ==
    /\ Mutates("tls_mode")
    /\ tls_mode_' = "SecureTLS"
    /\ setVia' = [setVia EXCEPT !.tls_mode = <<"SecureTLS">>]
    /\ UNCHANGED <<credential_, database_, request_timeout_, client_name_, read_from_,
                   timeoutLog>>

\* Config& Config::withDatabase(uint32_t database)
Config_withDatabase(database) ==
    /\ Mutates("database")
    /\ database_' = database
    /\ setVia' = [setVia EXCEPT !.database = <<database>>]
    /\ UNCHANGED <<credential_, tls_mode_, request_timeout_, client_name_, read_from_,
                   timeoutLog>>

\* Config& Config::withCredential(const std::string& username, const std::string& password)
Config_withCredential(username, password) ==
    /\ Mutates("credential")
    /\ credential_' = Credential(username, password)
    /\ setVia' = [setVia EXCEPT !.credential = <<Credential(username, password)>>]
    /\ UNCHANGED <<tls_mode_, database_, request_timeout_, client_name_, read_from_,
                   timeoutLog>>

\* static_cast<uint32_t>(timeout.count()): the count of the duration in its
\* own unit; the counts used here are below 2^32, where the cast keeps them.
StoredTimeout(unit, count) == count

\* template <typename T> Config& withRequestTimeout(T timeout)
Config_withRequestTimeout(unit, count) ==
    /\ Mutates("request_timeout")
    /\ request_timeout_' = StoredTimeout(unit, count)
    /\ setVia' = [setVia EXCEPT !.request_timeout = <<request_timeout_'>>]
    /\ timeoutLog' = timeoutLog \cup
           {[ns |-> DurationNs(unit, count), stored |-> request_timeout_']}
    /\ UNCHANGED <<credential_, tls_mode_, database_, client_name_, read_from_>>

\* Config& Config::withClientName(const std::string& client_name)
Config_withClientName(client_name) ==
    /\ Mutates("client_name")
    /\ client_name_' = [has |-> TRUE, val |-> client_name]
    /\ setVia' = [setVia EXCEPT !.client_name = <<client_name>>]
    /\ UNCHANGED <<credential_, tls_mode_, database_, request_timeout_, read_from_,
                   timeoutLog>>

\* Config& Config::withReadFrom(ReadFrom read_from)
Config_withReadFrom(read_from) ==
    /\ Mutates("read_from")
    /\ read_from_' = read_from
    /\ setVia' = [setVia EXCEPT !.read_from = <<read_from>>]
    /\ UNCHANGED <<credential_, tls_mode_, database_, request_timeout_, client_name_,
                   timeoutLog>>

\* The switch over tls_mode_ in serialize.
TlsOnWire(m) ==
    CASE m = "NoTLS" -> "NoTls"
      [] m = "InsecureTLS" -> "InsecureTls"
      [] m = "SecureTLS" -> "SecureTls"

\* The ConnectionRequest message serialize fills in: one address per node
\* in order; authentication_info only when username and password are both
\* non-empty; tls_mode, database_id, request_timeout; client_name only when
\* the optional holds a value; read_from.
ConnectionRequestOf(c) ==
    [addresses |-> c.cluster_nodes_,
     authentication_info |->
         IF c.credential_.username # <<>> /\ c.credential_.password # <<>>
         THEN <<c.credential_>> ELSE <<>>,
     tls_mode |-> TlsOnWire(c.tls_mode_),
     database_id |-> c.database_,
     request_timeout |-> c.request_timeout_,
     client_name |-> IF c.client_name_.has THEN c.client_name_.val ELSE <<>>,
     read_from |-> c.read_from_]

\* The members of the constructed Config.
ThisConfig ==
    [built |-> TRUE, cluster_nodes_ |-> cluster_nodes_, credential_ |-> credential_,
     tls_mode_ |-> tls_mode_, database_ |-> database_,
     request_timeout_ |-> request_timeout_, client_name_ |-> client_name_,
     read_from_ |-> read_from_]

ConnectionRequest == ConnectionRequestOf(ThisConfig)

\* A field of the wire format: present only when it differs from the
\* default of its type (proto3).
PbField(tag, v, default) == IF v = default THEN <<>> ELSE << <<tag, v>> >>

\* NodeAddress on the wire.
PbNode(n) == PbField("host", n.host, <<>>) \o PbField("port", n.port, 0)

RECURSIVE PbNodes(_)
PbNodes(ns) ==
    IF ns = <<>> THEN <<>> ELSE << <<"addresses", PbNode(Head(ns))>> >> \o PbNodes(Tail(ns))

\* AuthenticationInfo on the wire.
PbAuth(a) == PbField("username", a.username, <<>>) \o PbField("password", a.password, <<>>)

\* cr.SerializeToArray: the fields of the message on the wire.
PbEncode(cr) ==
    PbNodes(cr.addresses)
      \o (IF cr.authentication_info = <<>> THEN <<>>
          ELSE << <<"authentication_info", PbAuth(cr.authentication_info[1])>> >>)
      \o PbField("tls_mode", cr.tls_mode, "NoTls")
      \o PbField("database_id", cr.database_id, 0)
      \o PbField("request_timeout", cr.request_timeout, 0)
      \o PbField("client_name", cr.client_name, <<>>)
      \o PbField("read_from", cr.read_from, "Primary")

\* What a call of serialize() gives its caller: the bytes, or no bytes.
Bytes(b, reuse) == [ok |-> TRUE, bytes |-> b, reuse |-> reuse]
NoBytes(reuse) == [ok |-> FALSE, bytes |-> <<>>, reuse |-> reuse]

\* The outcomes of building and serializing the message.  Every call ends
\* with google::protobuf::ShutdownProtobufLibrary(), after which the library
\* must not be used any more in the process: a later call runs on a library
\* that was shut down, and what it does is not defined; it may still produce
\* the bytes, or fail or fault and give the caller none.
SerializeOutcomesOf(c) ==
    IF pbShutdown
    THEN {Bytes(PbEncode(ConnectionRequestOf(c)), TRUE), NoBytes(TRUE)}
    ELSE {Bytes(PbEncode(ConnectionRequestOf(c)), FALSE)}

SerializeOutcomes == SerializeOutcomesOf(ThisConfig)

\* std::optional<std::vector<uint8_t>> Config::serialize()
Config_serialize ==
    /\ cfgState = "built"
    /\ Len(serialized) < MaxSerialize
    /\ \E out \in SerializeOutcomes : serialized' = Append(serialized, out)
    /\ pbShutdown' = TRUE
    /\ UNCHANGED <<cfgState, cluster_nodes_, credential_, tls_mode_, database_,
                   request_timeout_, client_name_, read_from_, setVia, timeoutLog, nmut,
                   lastMut>>
    /\ ConfigOnly

\* Config::Config(const Config& other) noexcept
\*     : cluster_nodes_(other.cluster_nodes_), credential_(other.credential_),
\*       tls_mode_(other.tls_mode_), database_(other.database_) {}
\* The members without a mem-initializer take their default member
\* initializers: request_timeout_ = 1000, client_name_ empty, read_from_
\* Primary.
Config_copy_ctor(other) ==
    [built |-> TRUE,
     cluster_nodes_ |-> other.cluster_nodes_,
     credential_ |-> other.credential_,
     tls_mode_ |-> other.tls_mode_,
     database_ |-> other.database_,
     request_timeout_ |-> DEFAULT_REQUEST_TIMEOUT,
     client_name_ |-> [has |-> FALSE, val |-> <<>>],
     read_from_ |-> "Primary"]

\* Config::Config(Config&& other) noexcept: the same four members, the node
\* list and the credential moved (Credential's move constructor assigns
\* both strings), the other three left at their defaults.
Config_move_ctor(other) ==
    [built |-> TRUE,
     cluster_nodes_ |-> other.cluster_nodes_,
     credential_ |-> Credential(other.credential_.username, other.credential_.password),
     tls_mode_ |-> other.tls_mode_,
     database_ |-> other.database_,
     request_timeout_ |-> DEFAULT_REQUEST_TIMEOUT,
     client_name_ |-> [has |-> FALSE, val |-> <<>>],
     read_from_ |-> "Primary"]

CopyKinds == {"copy", "move"}

\* Client::Client(const Config &config) : config_(config) {}  -- the copy
\* constructor; "move" is the same Config reaching the Client through a
\* moved temporary (Config made in a function and returned by std::move)
\* before the constructor copies it.
Client_ctor_config(via) ==
    /\ cfgState = "built"
    /\ config_ = NoConfig
    /\ config_' = IF via = "copy" THEN Config_copy_ctor(ThisConfig)
                  ELSE Config_copy_ctor(Config_move_ctor(ThisConfig))
    /\ original' = <<[config |-> ThisConfig, bytes |-> PbEncode(ConnectionRequest)]>>
    /\ UNCHANGED <<sent, cfgVars>>
    /\ UNCHANGED <<futVars, thrVars, cliVars, cmdVars, chanVars, waitVars,
                   cvIn, cvOut, argIn, submitted, crdVars, msgVars, cbVars>>

\* std::optional<std::vector<uint8_t>> serialized_conf = config_.serialize();
\* in Client::connect.
Client_connect_serialize ==
    /\ config_ # NoConfig
    /\ sent = <<>>
    /\ \E out \in SerializeOutcomesOf(config_) : sent' = <<out>>
    /\ pbShutdown' = TRUE
    /\ UNCHANGED <<config_, original>>
    /\ UNCHANGED <<cfgState, cluster_nodes_, credential_, tls_mode_, database_,
                   request_timeout_, client_name_, read_from_, setVia, timeoutLog, nmut,
                   serialized, lastMut>>
    /\ UNCHANGED <<futVars, thrVars, cliVars, cmdVars, chanVars, waitVars,
                   cvIn, cvOut, argIn, submitted, crdVars, msgVars, cbVars>>

InitConfigSpec ==
    /\ futT = [f \in Futures |-> "none"]
    /\ InitFutures
    /\ InitThreads
    /\ InitClients
    /\ InitCmd
    /\ InitOther

NextConfig ==
    \/ \E host \in CfgStrings : Config_ctor_host(host, DEFAULT_PORT)
    \/ \E nodes \in CfgNodeVectors : Config_ctor_nodes(nodes)
    \/ Config_withInsecureTLSMode
    \/ Config_withSecureTLSMode
    \/ \E d \in Databases : Config_withDatabase(d)
    \/ \E u, p \in CfgStrings : Config_withCredential(u, p)
    \/ \E d \in TimeoutInputs : Config_withRequestTimeout(d[1], d[2])
    \/ \E n \in CfgStrings : Config_withClientName(n)
    \/ \E r \in ReadFromValues : Config_withReadFrom(r)
    \/ Config_serialize
    \/ \E via \in CopyKinds : Client_ctor_config(via)
    \/ Client_connect_serialize

SpecConfig == InitConfigSpec /\ [][NextConfig]_vars

(***************************************************************************)
(* Claims about the channel in isolation.                                  *)
(***************************************************************************)
\* The wire response a successful set_value on f was invoked with.
Delivered(f) == resp[sarg[f].rid]

\* The decoded value a caller of Future<T> expects for a wire response:
\* OK for Future<Status>, exactly string_value_len bytes for
\* Future<StatusOr<string>>, the boolean for Future<StatusOr<bool>>.
ExpectedValue(T, r) ==
    IF T = "Status" THEN OkStatus
    ELSE IF T = "StatusOrString"
         THEN StringValue([i \in 1..r.len |-> r.buf[i]])
         ELSE BoolValue(r.bval)

FulfilledOnce(f) == futT[f] # "none" /\ nset[f] = 1

\* A get() call of thread t on f that has returned and was ordered with the
\* fulfilment: the thread blocked in wait() before it, or began afterwards.
ReturnedGet(t, f) == pc[t] = "done" /\ top[t] = "get" /\ tfut[t] = f

\* C1: on a Future on which set_value(success response) is invoked exactly
\* once, ready_ goes from false to true exactly once; once set_value has
\* returned no thread is left blocked in cv_->wait, and the get() of a thread
\* that had blocked returns the decoded success value; a get() begun after
\* set_value returned yields the same value without ever blocking.
C1_SuccessFulfilsOnceAndReleasesWaiters ==
    \A f \in Futures :
        (FulfilledOnce(f) /\ ~sarg[f].isErr) =>
            /\ becameReady[f] <= 1
            /\ (spc[f] = "returned" =>
                    /\ ready_[f]
                    /\ becameReady[f] = 1
                    /\ result_[f] = ExpectedValue(futT[f], Delivered(f))
                    /\ cvWait[f] = {}
                    /\ \A t \in Threads : tfut[t] = f => pc[t] # "cv_wait")
            /\ \A t \in Threads :
                  /\ (ReturnedGet(t, f) /\ (blocked[t] \/ late[t])) =>
                        ret[t] = ExpectedValue(futT[f], Delivered(f))
                  /\ (tfut[t] = f /\ pc[t] # "idle" /\ late[t]) => ~blocked[t]


\* A waiter that blocked before the fulfilment and a late caller have both
\* returned the same success value of a string-typed Future.
C1_Witness ==
    \E t1, t2 \in Threads :
        /\ FulfilledOnce(1) /\ ~sarg[1].isErr /\ futT[1] = "StatusOrString"
        /\ ReturnedGet(t1, 1) /\ blocked[t1]
        /\ ReturnedGet(t2, 1) /\ late[t2]
        /\ ret[t1] = ret[t2]
        /\ ret[t1].sval = <<1, 0, 2>>

\* The Error Mapping table of the specification.
ErrorMapping(kind) ==
    IF kind = 1 THEN "Aborted"
    ELSE IF kind = 2 THEN "DeadlineExceeded"
    ELSE IF kind = 3 THEN "Unavailable"
    ELSE "Unknown"

\* The text of a delivered zero-terminated message.
RECURSIVE MessageText(_, _)
MessageText(buf, i) ==
    IF i > Len(buf) \/ buf[i] = 0 THEN <<>> ELSE <<buf[i]>> \o MessageText(buf, i + 1)

ResultType(f) == IF cmd[f].type = "Set" THEN "Status" ELSE "StatusOrString"

\* The result the completion delivered with token f stands for.
DeliveredResult(f) ==
    IF delivered[f].kind = "success"
    THEN ExpectedValue(ResultType(f), resp[delivered[f].rid])
    ELSE MkStatus(ErrorMapping(delivered[f].errKind), MessageText(delivered[f].msg, 1))

GetInProgress(t) == pc[t] \in {"get_check", "wait_lock", "wait_pred", "cv_wait", "get_ret"}

\* C3: the completion the engine delivers with a command's token fulfils the
\* Future that command's submission returned, with that command's result, and
\* a Future whose completion has not been delivered holds no result.
C3_CompletionFulfilsOwnFuture ==
    \A f \in Futures :
        IF delivered[f].kind = "none"
        THEN ~ready_[f]
        ELSE ready_[f] /\ result_[f] = DeliveredResult(f)

\* C4: when the engine invokes exactly one completion callback per submitted
\* command, every submitted command's Future is eventually fulfilled with the
\* delivered success value or classified error, it is fulfilled at most
\* once, and every caller inside get() on it eventually returns.
C4_EveryFutureEventuallyFulfilledOnce ==
    /\ \A f \in Futures :
          (f \in inflight) ~> (ready_[f] /\ result_[f] = DeliveredResult(f))
    /\ \A t \in Threads : GetInProgress(t) ~> (pc[t] \in {"done", "finished"})
    /\ [](\A f \in Futures : becameReady[f] <= 1)

\* The server answered every command delivered so far.
NoFailureDelivered == \A f \in Futures : delivered[f].kind # "failure"

\* C5: threads sharing one connected Client, each running set(k_i, v_i).get()
\* and then get(k_i).get() on its own key: against a server that answers
\* every command, every thread runs to the end, its set resolved OK and its
\* get resolved to exactly v_i.
C5_ConcurrentSetGetPairs ==
    /\ [](\A t \in Threads :
            (pc[t] = "finished" /\ NoFailureDelivered) =>
                /\ first[t] = OkStatus
                /\ ret[t] = StringValue(Val(t)))
    /\ <>(\/ ~NoFailureDelivered
          \/ lastConnect[1] = "false"
          \/ \A t \in Threads : pc[t] = "finished")

\* C6: destroying a Client on which connect() was never called, or on which
\* connect() returned false, makes no close_client and no
\* free_connection_response call and reads no connection state that was
\* never set.
C6_UnconnectedDestroyIsNoOp ==
    \A c \in Clients :
        (cstate[c] = "destroyed" /\ ~isCopy[c] /\ lastConnect[c] \in {"never", "false"}) =>
            /\ dtorCalls[c] = 0
            /\ ~uninitRead[c]

\* C7: no conn_ptr is passed to close_client more than once, and none is
\* passed to command or close_client after it has been closed, whatever the
\* sequence of construction, copy, connect and destruction.
C7_NoDoubleCloseNoUseAfterClose ==
    (\A c \in Clients : ~uninitRead[c]) =>
        \A r \in ConnResps : closed[r] <= 1 /\ ~useAfterClose[r]

\* C8: every conn_ptr a successful create_client returned has been passed to
\* close_client exactly once by the time the Client that obtained it has been
\* destroyed, also when connect() was called more than once on that Client.
C8_EveryConnectionClosedOnce ==
    \A r \in ConnResps :
        (cresp[r] # "none" /\ connOf[r] # Null /\ cstate[createdBy[r]] = "destroyed"
            /\ \A c \in Clients : ~isCopy[c] /\ ~uninitRead[c]) =>
            closed[r] = 1

\* C9: every ConnectionResponse create_client returned, with a connection or
\* with a connection error, has been passed to free_connection_response
\* exactly once by the time the Client that obtained it has been destroyed.
C9_EveryConnectionResponseFreedOnce ==
    \A r \in ConnResps :
        (cresp[r] # "none" /\ cstate[createdBy[r]] = "destroyed"
            /\ \A c \in Clients : ~isCopy[c] /\ ~uninitRead[c]) =>
            crFreed[r] = 1

\* C10: in a Client's teardown close_client is called for a connection only
\* after free_connection_response was called for the ConnectionResponse that
\* carried it.
C10_CloseAfterFreeConnectionResponse ==
    (\A c \in Clients : ~isCopy[c] /\ ~uninitRead[c]) =>
        \A r \in ConnResps : closed[r] > 0 => ~closeBeforeFree[r]


(***************************************************************************)
(* Claims about connect().                                                 *)
(***************************************************************************)
\* C11: the latest connect() of a Client returned true exactly when the
\* ConnectionResponse create_client gave it carries a non-null conn_ptr; when
\* the configuration does not serialize, connect() returned false and no
\* create_client call was made for that Client.
C11_ConnectReportsConnPtr ==
    \A c \in Clients :
        lastConnect[c] # "never" =>
            IF serializable[c]
            THEN /\ connection_[c] \in ConnResps
                 /\ createdBy[connection_[c]] = c
                 /\ lastConnect[c] = "true" <=> connOf[connection_[c]] # Null
            ELSE /\ lastConnect[c] = "false"
                 /\ \A r \in ConnResps : cresp[r] # "none" => createdBy[r] # c

\* A connect() that the engine answered with a connection error, next to one
\* whose configuration did not serialize.
C11_Witness ==
    /\ \E c \in Clients :
          serializable[c] /\ lastConnect[c] = "false" /\ connOf[connection_[c]] = Null
    /\ \E c \in Clients : ~serializable[c] /\ lastConnect[c] = "false"


(***************************************************************************)
(* Claims about the CommandResponseData channel and the Command API.       *)
(***************************************************************************)
\* The results Command::get can return for a successful completion.
SuccessResults == {CommandGetResult(FALSE, r) : r \in ChanResps}

FailedOnly(ch) == Len(chLog[ch]) = 1 /\ chLog[ch][1].kind = "failure"

\* C12: a command whose only completion came through the failure callback
\* returns to its caller a result that no successful completion returns.
C12_FailureDistinguishableFromSuccess ==
    \A ch \in Chans :
        (cmdRet[ch].done /\ FailedOnly(ch)) => cmdRet[ch].val \notin SuccessResults

\* The CommandResponseData objects whose value member points to response r.
Holders(r) == {ch \in Chans : chState[ch] # "none" /\ value[ch] = r}

\* Every channel received at most one completion and every destroyed channel
\* had its value member set.
OnceAndSet ==
    \A ch \in Chans :
        /\ Len(chLog[ch]) <= 1
        /\ chState[ch] = "destroyed" => value[ch] # Uninit

\* C13: a CommandResponse delivered through the success callback is never
\* passed to free_command_response twice, and has been passed to it exactly
\* once when every channel holding it, original or copy, has been destroyed.
C13_ResponseFreedExactlyOnce ==
    OnceAndSet =>
        \A r \in RespIds :
            resp[r] # NoResp =>
                /\ respFreed[r] <= 1
                /\ (Holders(r) # {} /\ \A ch \in Holders(r) : chState[ch] = "destroyed")
                      => respFreed[r] = 1

\* What a channel holds, and what it holds after the single completion c.
ChanState(ch) ==
    [e |-> is_error[ch], v |-> value[ch], t |-> error_type[ch], m |-> error_message[ch]]

StateAfterOnly(c) ==
    IF c.kind = "success"
    THEN [e |-> FALSE, v |-> c.rid, t |-> Uninit, m |-> <<Uninit>>]
    ELSE [e |-> TRUE, v |-> Uninit, t |-> c.errKind, m |-> c.msg]

\* C15: a channel to which the engine delivered two completions is ready and
\* holds what one of the two completions alone leaves in it, the first or
\* the last, never the error flag of one with the value of the other.
C15_DoubleCompletionKeepsOneResult ==
    \A ch \in Chans :
        (chState[ch] # "none" /\ Len(chLog[ch]) = 2) =>
            /\ is_ready[ch]
            /\ ChanState(ch) \in {StateAfterOnly(chLog[ch][1]), StateAfterOnly(chLog[ch][2])}


(***************************************************************************)
(* Claims about the channel's life cycle and the bounded waits.            *)
(***************************************************************************)
StartsPending == \A f \in Futures : (futT[f] # "none" /\ nset[f] = 0) => ~ready_[f]

StaysFulfilled ==
    \A f \in Futures :
        (ready_[f] /\ nset'[f] <= 1) => (ready_'[f] /\ result_'[f] = result_[f])

BoolText(b) == IF b THEN "true" ELSE "false"

WaitLeavesResult ==
    \A t \in Threads :
        (top[t] = "wait_for" /\ pc[t] \in {"wait_lock", "wait_pred", "cv_wait"} /\ nset' = nset)
            => (result_' = result_)

\* C16: a wait_for / wait_until that has returned gave its caller whether
\* the Future was fulfilled when the wait ended, and no step of a bounded
\* wait changes the Future's result.
C16_BoundedWaitReportsFulfilment ==
    /\ [](\A t \in Threads : wret[t] # "none" => wret[t] = BoolText(wpred[t]))
    /\ [][WaitLeavesResult]_vars

\* The bounded wait of thread t ended because its time bound passed.
TimedOut(t) == wret[t] # "none" /\ ~wpred[t]

\* The result the completion delivered to Future f stands for.
StoredResult(f) ==
    IF sarg[f].isErr
    THEN MkStatus(ErrorMapping(sarg[f].kind), MessageText(sarg[f].msg, 1))
    ELSE ExpectedValue(futT[f], Delivered(f))

\* C17: a bounded wait that timed out before any completion leaves the
\* Future Pending; the completion delivered later still fulfils it; and a
\* get() called after the timed-out wait returns only when the Future is
\* fulfilled, with the delivered result.
C17_TimedOutWaitThenGet ==
    /\ \A t \in Threads :
          (TimedOut(t) /\ nset[tfut[t]] = 0) =>
              /\ ~ready_[tfut[t]]
              /\ result_[tfut[t]] = DefaultResult(futT[tfut[t]])
    /\ \A f \in Futures :
          (nset[f] = 1 /\ spc[f] = "returned") => (ready_[f] /\ result_[f] = StoredResult(f))
    /\ \A t \in Threads :
          (TimedOut(t) /\ top[t] = "get" /\ pc[t] = "done") =>
              /\ nset[tfut[t]] = 1
              /\ ready_[tfut[t]]
              /\ ret[t] = StoredResult(tfut[t])


(***************************************************************************)
(* Claims about the error mapping and the submitted argument lists.        *)
(***************************************************************************)
\* C18: for every error kind value and every message ConvertRequestError
\* returns the status whose code is the Error Mapping of the kind (Unknown
\* for Unspecified and for values outside the enumeration), whose message is
\* the given message unchanged, and which is never OK.
C18_ConvertRequestErrorTotal ==
    cvOut # NoStatus =>
        /\ cvOut = MkStatus(ErrorMapping(cvIn.type), cvIn.msg)
        /\ cvOut.code # "Ok"

\* A kind outside the enumeration with a message holding a zero byte.
C18_Witness ==
    /\ cvIn.type = MaxErrorKind /\ cvIn.msg = <<0, 2>>
    /\ cvOut.code = "Unknown" /\ cvOut.msg = <<0, 2>>

\* The call c passes as many pointers and lengths as arg_count says, and
\* every length is the byte size of its argument.
WellFormedCall(c) ==
    /\ c.arg_count = Len(c.args)
    /\ c.arg_count = Len(c.args_len)
    /\ \A i \in 1..Len(c.args) : c.args_len[i] = Len(c.args[i])

\* The argument list a is key followed by the pairs of map m, flattened, in
\* ascending order of the field.
IsFlattenedMap(a, key, m) ==
    /\ Len(a) = 1 + 2 * Cardinality(m)
    /\ a[1] = key
    /\ \A i \in 1..Cardinality(m) : <<a[2 * i], a[2 * i + 1]>> \in m
    /\ \A i, j \in 1..Cardinality(m) : i < j => LexLess(a[2 * i], a[2 * j])

Made(m) == submitted[m] # NoCall

\* C19: every command method passes core::command a well-formed flat
\* argument list: set gives [key, value], hset gives key followed by the
\* map's pairs in iteration order, get and getdel give [key], hget gives
\* [key, field].
C19_FlatOrderedArguments ==
    /\ \A m \in Methods : Made(m) => WellFormedCall(submitted[m])
    /\ \A m \in {"set", "set_b"} :
          Made(m) => submitted[m].type = "Set" /\ submitted[m].args = <<argIn.key, argIn.value>>
    /\ \A m \in {"hset", "hset_b"} :
          Made(m) => /\ submitted[m].type = "HSet"
                     /\ IsFlattenedMap(submitted[m].args, argIn.key, argIn.map)
    /\ Made("get") => submitted["get"].type = "Get" /\ submitted["get"].args = <<argIn.key>>
    /\ Made("getdel") =>
          submitted["getdel"].type = "GetDel" /\ submitted["getdel"].args = <<argIn.key>>
    /\ Made("hget") =>
          submitted["hget"].type = "HGet" /\ submitted["hget"].args = <<argIn.key, argIn.field>>

\* Every method has been called, hset with a two-field map whose values
\* include one with an embedded zero byte.
C19_Witness ==
    /\ \A m \in Methods : Made(m)
    /\ Cardinality(argIn.map) = 2
    /\ \E p \in argIn.map : p[2] = <<2, 0, 1>>
    /\ argIn.value = <<2, 0, 1>>

\* The (argument bytes, argument length) pairs the engine receives.
Pairs(c) == [i \in 1..c.arg_count |-> <<c.args[i], c.args_len[i]>>]

\* C20: for the same key and the same value bytes the text and the binary
\* overload of set, and of hset, pass core::command the same request kind
\* and the same sequence of (argument bytes, argument length) pairs.
C20_TextAndBinaryOverloadsAgree ==
    /\ (Made("set") /\ Made("set_b")) =>
          /\ submitted["set"].type = submitted["set_b"].type
          /\ Pairs(submitted["set"]) = Pairs(submitted["set_b"])
    /\ (Made("hset") /\ Made("hset_b")) =>
          /\ submitted["hset"].type = submitted["hset_b"].type
          /\ Pairs(submitted["hset"]) = Pairs(submitted["hset_b"])

\* Both overloads of set and of hset were called with a key and values of
\* different sizes.
C20_Witness ==
    /\ Made("set") /\ Made("set_b") /\ Made("hset") /\ Made("hset_b")
    /\ argIn.key = <<1>> /\ argIn.value = <<2, 0, 1>>
    /\ argIn.map = { <<<<1, 0>>, <<2, 0, 1>>>>, <<<<0, 2>>, <<>>>> }


(***************************************************************************)
(* Claims about round trips through the Client and about the token.        *)
(***************************************************************************)
\* Thread t's set and get were both answered successfully by the server and
\* the get() of its second Future has returned.
PairAnswered(t) ==
    /\ prog[t] = CmdsPerThread
    /\ pc[t] \in {"done", "finished"}
    /\ delivered[Slot(t, 1)].kind = "success"
    /\ delivered[Slot(t, 2)].kind = "success"

\* C21: for a value v with an embedded zero byte, set(key, v) resolved and
\* followed by get(key) on the same Client resolves to exactly the bytes of
\* v, neither truncated at the zero byte nor altered.
C21_SetGetRoundTrip ==
    \A t \in Threads :
        PairAnswered(t) =>
            /\ first[t] = OkStatus
            /\ ret[t].hasValue
            /\ ret[t].sval = Val(t)

\* C29: command is reached only with a conn_ptr that is not null and that a
\* successful create_client returned; a Client that never connected, or
\* whose connect() failed, submits no command and reads no connection state
\* that was never set.
C29_CommandOnlyOnConnectedClient ==
    /\ ~nullCommand
    /\ \A c \in Clients :
          (cstate[c] = "alive" /\ ~isCopy[c] /\ lastConnect[c] = "never") => ~uninitRead[c]

\* C30: whatever the interleaving of get() with the single set_value on the
\* same Future, a get() that has returned did so on a fulfilled Future and
\* returned exactly the result the completion stored.
C30_GetReturnsStoredResult ==
    \A t \in Threads :
        (pc[t] = "done" /\ top[t] = "get") =>
            /\ ready_[tfut[t]]
            /\ nset[tfut[t]] = 1
            /\ ret[t] = StoredResult(tfut[t])

\* The session ran to its end and the server answered each of its commands.
SessionAnswered(name) ==
    /\ script = name
    /\ Len(outs) = Len(Scripts[name])
    /\ \A n \in 1..Len(Scripts[name]) : delivered[n].kind = "success"

\* C26: after set(key, v) resolved OK, getdel(key) resolves to v, and a get(key)
\* issued after getdel resolved resolves successfully to the empty string.
C26_GetDelReturnsThenRemoves ==
    (SessionAnswered("getdel") /\ outs[1] = OkStatus) =>
        /\ outs[2].hasValue /\ outs[2].sval = SessVal
        /\ outs[3].hasValue /\ outs[3].sval = <<>>

\* C27: after hset(key, m) resolved OK, hget(key, f) resolves to m[f] for
\* every field f of m.
C27_HSetHGetRoundTrip ==
    (SessionAnswered("hash") /\ outs[1] = OkStatus) =>
        \A n \in 2..Len(Scripts.hash) :
            /\ outs[n].hasValue
            /\ <<Scripts.hash[n].args[2], outs[n].sval>> \in SessMap

\* C28: while a command is in flight its token is the address of the Future
\* the caller holds, that Future is alive, and no completion callback runs on
\* an address whose Future was moved from or destroyed, also when the method
\* returned the Future by value.
C28_TokenAddressesLiveFuture ==
    /\ ~staleWrite
    /\ \A f \in inflight :
          /\ token[f] = f
          /\ futT[f] \in FutureTypes

(***************************************************************************)
(* Claims about Config.                                                    *)
(***************************************************************************)
\* The payload of the field tag in the wire fields b, or its default.
PbGet(b, tag, default) ==
    IF \E i \in 1..Len(b) : b[i][1] = tag
    THEN b[CHOOSE i \in 1..Len(b) : b[i][1] = tag][2]
    ELSE default

\* The payloads of the repeated field tag, in wire order.
RECURSIVE PbRepeated(_, _)
PbRepeated(b, tag) ==
    IF b = <<>> THEN <<>>
    ELSE (IF Head(b)[1] = tag THEN <<Head(b)[2]>> ELSE <<>>) \o PbRepeated(Tail(b), tag)

\* The connection request a reader of the wire fields b obtains.
PbDecode(b) ==
    [addresses |->
         [i \in 1..Len(PbRepeated(b, "addresses")) |->
             ClusterNode(PbGet(PbRepeated(b, "addresses")[i], "host", <<>>),
                         PbGet(PbRepeated(b, "addresses")[i], "port", 0))],
     authentication_info |->
         [i \in 1..Len(PbRepeated(b, "authentication_info")) |->
             Credential(PbGet(PbRepeated(b, "authentication_info")[i], "username", <<>>),
                        PbGet(PbRepeated(b, "authentication_info")[i], "password", <<>>))],
     tls_mode |-> PbGet(b, "tls_mode", "NoTls"),
     database_id |-> PbGet(b, "database_id", 0),
     request_timeout |-> PbGet(b, "request_timeout", 0),
     client_name |-> PbGet(b, "client_name", <<>>),
     read_from |-> PbGet(b, "read_from", "Primary")]

\* The authentication a reader expects after withCredential(u, p): the pair,
\* unless both are empty.
ExpectedAuth(c) ==
    IF c.username = <<>> /\ c.password = <<>> THEN <<>> ELSE <<c>>

\* The decoded request d carries the node list in order and every field that
\* was set through a mutator, and no authentication that was never set.
CarriesConfig(d) ==
    /\ d.addresses = cluster_nodes_
    /\ setVia.tls_mode # <<>> => d.tls_mode = TlsOnWire(setVia.tls_mode[1])
    /\ setVia.database # <<>> => d.database_id = setVia.database[1]
    /\ setVia.request_timeout # <<>> => d.request_timeout = setVia.request_timeout[1]
    /\ setVia.client_name # <<>> => d.client_name = setVia.client_name[1]
    /\ setVia.read_from # <<>> => d.read_from = setVia.read_from[1]
    /\ IF setVia.credential = <<>>
       THEN d.authentication_info = <<>>
       ELSE d.authentication_info = ExpectedAuth(setVia.credential[1])

\* C22: for a Config with at least one node and any combination of mutator
\* calls, decoding the bytes serialize() returned yields the node list in
\* order and exactly every field that was set through a mutator.
C22_SerializeCarriesEveryField ==
    \A i \in 1..Len(serialized) :
        (serialized[i].ok /\ Len(cluster_nodes_) >= 1) =>
            CarriesConfig(PbDecode(serialized[i].bytes))

\* C23: withRequestTimeout normalizes its argument to one unit: two calls
\* given the same duration, whether as seconds, milliseconds or nanoseconds,
\* stored the same request_timeout_.
C23_RequestTimeoutNormalized ==
    \A a, b \in timeoutLog : a.ns = b.ns => a.stored = b.stored

\* The step is a call of serialize().
IsSerializeStep == Len(serialized') = Len(serialized) + 1

\* C24: serialize() leaves every field of the Config unchanged, and
\* consecutive calls each succeed and return identical bytes.
C24_SerializeRepeatable ==
    /\ [](\A i, j \in 1..Len(serialized) :
            /\ serialized[i].ok
            /\ serialized[i].bytes = serialized[j].bytes)
    /\ [][IsSerializeStep =>
            UNCHANGED <<cluster_nodes_, credential_, tls_mode_, database_,
                        request_timeout_, client_name_, read_from_>>]_vars

\* C25: every Config on which serialize() was performed holds at least one
\* cluster node, whatever constructor and mutators built it, and a
\* serialize() on a library not yet shut down succeeded whichever optional
\* fields were left unset.
C25_SerializedConfigHasNode ==
    serialized # <<>> =>
        /\ Len(cluster_nodes_) >= 1
        /\ \A i \in 1..Len(serialized) : ~serialized[i].reuse => serialized[i].ok

\* C35: copying or moving a Config preserves every field the original had:
\* the Client's config_ holds the members its constructor's argument held,
\* and config_.serialize() returned the bytes serialize() on that argument
\* gives.
C35_CopyPreservesConfig ==
    config_ # NoConfig =>
        /\ config_ = original[1].config
        /\ \A i \in 1..Len(sent) : sent[i].ok => sent[i].bytes = original[1].bytes

\* The step is a call of a mutator.
IsMutatorStep == nmut' = nmut + 1

\* The value a step leaves in each member a mutator can set.
FieldsNow ==
    [tls_mode |-> tls_mode_, database |-> database_, credential |-> credential_,
     request_timeout |-> request_timeout_, client_name |-> client_name_,
     read_from |-> read_from_]

\* C37: a mutator call returns the object it was called on and changes no
\* member but its own; the node list is changed by no mutator.
C37_MutatorChangesOwnField ==
    [][IsMutatorStep =>
          /\ lastMut'.returns = This
          /\ cluster_nodes_' = cluster_nodes_
          /\ \A fld \in DOMAIN FieldsNow :
                 fld # lastMut'.name => FieldsNow'[fld] = FieldsNow[fld]]_vars

\* A second mutator call was made on a Config with two nodes after a first
\* one had set another member to a value that is not its default.
C37_Witness ==
    /\ nmut = 2
    /\ Len(cluster_nodes_) = 2
    /\ lastMut.name = "database"
    /\ setVia.client_name = << <<1>> >>
    /\ client_name_ = [has |-> TRUE, val |-> <<1>>]
    /\ tls_mode_ = "NoTLS"

\* The step is one of a get() that thread t began after set_value had
\* returned on its Future.
LateGetStep(t) ==
    /\ late[t] /\ top[t] = "get"
    /\ pc[t] \in {"get_check", "get_ret"}
    /\ pc'[t] # pc[t]

\* C39: get() does not consume the result: a get() on a fulfilled Future
\* returns the stored result without blocking, every such call returns the
\* same value, and none of its steps changes the Future's state or releases
\* a wire response.  (The Future received its single completion.)
C39_GetDoesNotConsume ==
    /\ [](\A t \in Threads :
            (ReturnedGet(t, tfut[t]) /\ late[t] /\ FulfilledOnce(tfut[t])) =>
                /\ ~blocked[t]
                /\ ret[t] = StoredResult(tfut[t]))
    /\ [][\A t \in Threads :
            LateGetStep(t) =>
                /\ pc'[t] \in {"get_ret", "done"}
                /\ UNCHANGED <<futT, ready_, result_, nset, resp, respFreed>>]_vars

\* Every caller thread has called get() on the same Future after a String
\* response fulfilled it, and each call has returned.
C39_Witness ==
    /\ FulfilledOnce(1) /\ ~sarg[1].isErr /\ futT[1] = "StatusOrString"
    /\ Delivered(1).type = "String"
    /\ \A t \in Threads : ReturnedGet(t, 1) /\ late[t]
    /\ ready_[1] /\ result_[1] = StoredResult(1)

\* The first len bytes of the buffer buf, whatever bytes they are.
ExactBytes(buf, len) == [i \in 1..len |-> buf[i]]

\* C38: when the engine answered a get, getdel or hget with a String
\* response (pointer, length), the get() of the Future the method returned
\* yields a value of exactly `length` bytes equal to the response content,
\* zero bytes included.
C38_StringResponseExactLength ==
    \A t \in Threads :
        LET f == tfut[t] IN
        (/\ pc[t] = "done" /\ top[t] = "get"
         /\ cmd[f] # NoCmd /\ cmd[f].type \in {"Get", "GetDel", "HGet"}
         /\ delivered[f].kind = "success"
         /\ resp[f].type = "String") =>
            /\ ret[t].hasValue
            /\ Len(ret[t].sval) = resp[f].len
            /\ ret[t].sval = ExactBytes(resp[f].buf, resp[f].len)

(***************************************************************************)
(* Claims about waiting on and releasing a CommandResponseData channel.    *)
(***************************************************************************)
\* Thread t is inside wait().
InWait(t) == cpc[t] \in {"lock", "pred", "blocked"}

\* C31: every thread that waits on a channel eventually returns from wait()
\* once the channel is fulfilled, whether it began to wait before or after
\* the fulfilment and whether it waits alone or with other threads.
C31_EveryWaiterReleased ==
    \A t \in Threads : (InWait(t) /\ is_ready[cwch[t]]) ~> (cpc[t] = "done")

\* C34: no channel holds a pointer to an error message buffer of the engine
\* after the failure callback that was given the buffer has returned.
C34_NoPointerToEngineMessage ==
    \A ch \in Chans :
        chState[ch] = "alive" => (msgPtr[ch] = Null \/ msgPtr[ch] > msgDropped)

\* Every completion channel ch received, if any, came through the failure
\* callback.
FailedOrNever(ch) == \A i \in 1..Len(chLog[ch]) : chLog[ch][i].kind = "failure"

\* C36: a channel that was fulfilled through the failure path, or never
\* fulfilled, holds no wire response: a wait() on it that returned gave its
\* caller the null pointer, and its destructor called free_command_response
\* with nothing.
C36_FailedChannelHoldsNoResponse ==
    \A ch \in Chans :
        (chState[ch] # "none" /\ FailedOrNever(ch)) =>
            /\ \A t \in Threads : (cpc[t] = "done" /\ cwch[t] = ch) => cwret[t] = Null
            /\ chState[ch] = "destroyed" =>
                   (~wildFree /\ \A r \in RespIds : respFreed[r] = 0)

(***************************************************************************)
(* Claims about the independence of channels.                              *)
(***************************************************************************)
\* Thread t is blocked in cv_->wait on its Future.
BlockedOn(t) == pc[t] = "cv_wait"

\* No thread that operates on Future g is inside the critical section of
\* wait().
NoHolderOn(g) == \A v \in Threads : tfut[v] = g => pc[v] # "wait_pred"

\* C33: no lock is shared between channels.  A thread holds at most the
\* mutex of the Future it operates on, and none while it is blocked; and
\* while a thread is blocked on one Future, the submission of a further
\* command, the fulfilment of another Future and a get() on another Future
\* are able to take their next step, unless a thread operating on that
\* other Future is itself inside its critical section.
C33_NoLockSharedBetweenChannels ==
    \A t \in Threads :
        /\ \A f \in Futures : mtx_[f] = t => (f = tfut[t] /\ ~BlockedOn(t))
        /\ BlockedOn(t) =>
              /\ cstate[1] = "alive" => ENABLED Client_exec_command(1)
              /\ \A g \in IndepFutures \ {tfut[t]} :
                    /\ (spc[g] = "ready" /\ NoHolderOn(g)) => ENABLED IFuture_ready(g)
                    /\ spc[g] = "notify" => ENABLED IFuture_ready_notify(g)
              /\ \A u \in Threads \ {t} :
                    (/\ tfut[u] # tfut[t]
                     /\ pc[u] \in {"get_check", "wait_lock", "wait_pred", "get_ret"}
                     /\ pc[u] = "wait_lock" => NoHolderOn(tfut[u]))
                        => ENABLED WaiterStep(u)

\* One thread is blocked on the first Future while the second Future has
\* been fulfilled and the other thread's get() on it has returned its
\* result, and the Client has submitted a command.
C33_Witness ==
    /\ BlockedOn(1) /\ tfut[1] = 1 /\ ~ready_[1]
    /\ ready_[2] /\ spc[2] = "returned"
    /\ ReturnedGet(2, 2) /\ ret[2] = StoredResult(2)
    /\ \E r \in ConnResps : usedConn[r]

\* The step is the engine's completion of command f: it invokes a callback
\* with the token submitted for f.
CompletionStep(f) == delivered'[f] # delivered[f]

\* What the callbacks of other commands have to leave alone: the state,
\* result and readiness of the Future at g.
ChannelAt(g) == <<futT[g], ready_[g], result_[g]>>

\* C32: a completion callback invoked with token t changes only the channel
\* at t: every other Future and the Client's connection pointer are as they
\* were; a callback invoked with the token 0 changes nothing.
C32_CallbackChangesOnlyItsChannel ==
    /\ [][\A f \in Futures :
            CompletionStep(f) =>
                /\ \A g \in Futures \ {token[f]} : ChannelAt(g)' = ChannelAt(g)
                /\ UNCHANGED <<connection_, connOf, cresp>>]_vars
    /\ [][nullCalls' # nullCalls =>
            UNCHANGED <<futT, ready_, result_, connection_, connOf, cresp>>]_vars

=============================================================================
